---- MODULE Spec2Model ----
(***************************************************************************)
(* Decoding layer of the OpenSky client: the enumerated field codec, the   *)
(* positional record decoder of StateVector, the collection decoder of     *)
(* States and the two StateRequest::send bodies (the long/short attempt    *)
(* chain of lib.rs and the single decode of states.rs); the send of the    *)
(* flights and tracks requests with their interval checks and urls, and    *)
(* the request builders.                                                   *)
(*                                                                         *)
(* A JSON value (serde_json::Value) is a pair <<tag, payload>>: the tag    *)
(* is the kind ("null", "bool", "u64", "i64", "f64", "str", "arr", "obj"). *)
(* A number keeps the three kinds serde_json distinguishes (PosInt,        *)
(* NegInt, Float); a Float payload is in units of 1/F32Scale.              *)
(* Option<T> is a sequence of length 0 (None) or 1 (Some).  The outcome    *)
(* of a decode is [kind, v] with kind "ok", "err" (a returned Err) or      *)
(* "panic" (an unwrap or an index that aborts the call).  arg is the       *)
(* in-memory value handed to an encoder, doc the text the encoder wrote     *)
(* (members in the order written) and log the lines the call printed with  *)
(* eprintln! or logged with warn!.  build is the profile the program was   *)
(* built with, now the reading of the clock, url the url a send built.     *)
(***************************************************************************)
EXTENDS Integers, Sequences, FiniteSets, TLC

VARIABLES pc, op, build, now, request, status, arg, wire, doc, attempts, log,
          url, calls, issued, result

vars == <<pc, op, build, now, request, status, arg, wire, doc, attempts, log,
          url, calls, issued, result>>

------------------------------------------------------------------------------
(* Outcomes and options                                                    *)

None == <<>>

Some(x) == <<x>>

Ok(x) == [kind |-> "ok", v |-> x]

Err(m) == [kind |-> "err", v |-> m]

Panic(m) == [kind |-> "panic", v |-> m]

------------------------------------------------------------------------------
(* serde_json::Value                                                       *)

JNull == <<"null", 0>>

JBool(b) == <<"bool", b>>

JU64(n) == <<"u64", n>>

JI64(n) == <<"i64", n>>

JF64(n) == <<"f64", n>>

JStr(s) == <<"str", s>>

JArr(s) == <<"arr", s>>

JObj(f) == <<"obj", f>>

Tag(val) == val[1]

Payload(val) == val[2]

\* Float payloads are fixed point: the number 6.1546 is JF64(61546).
F32Scale == 10000

IsNumber(val) == Tag(val) \in {"u64", "i64", "f64"}

\* Number::as_u64: Some for a PosInt, None for a NegInt or a Float.
as_u64(val) == IF Tag(val) = "u64" THEN Some(Payload(val)) ELSE None

\* `x as u8`: truncation to the low 8 bits.
AsU8(n) == n % 256

------------------------------------------------------------------------------
(* Enumerated field codec (states.rs)                                      *)

ADSB == 0

ASTERIX == 1

MLAT == 2

FLARM == 3

\* Variant names of PositionSource in declaration order (discriminant + 1).
PositionSourceNames == <<"ADSB", "ASTERIX", "MLAT", "FLARM">>

NoInformation == 0

\* Variant names of AirCraftCategory in declaration order (discriminant + 1).
AirCraftCategoryNames ==
    <<"NoInformation", "NoADSB", "Light", "Small", "Large", "HighVortexLarge",
      "Heavy", "HighPerformance", "Rotorcraft", "Glider", "LighterThanAir",
      "Parachutist", "Ultralight", "Reserved", "UAV", "Space",
      "SurfaceEmergency", "SurfaceService", "PointObstacle",
      "ClusterObstacle", "LineObstacle">>

\* Index of name s in the table names (0-based discriminant), or -1.
IndexOf(names, s) ==
    IF \E i \in 1..Len(names) : names[i] = s
    THEN (CHOOSE i \in 1..Len(names) : names[i] = s) - 1
    ELSE -1

PositionSource_from_u8(value) ==
    CASE value = 0 -> ADSB
      [] value = 1 -> ASTERIX
      [] value = 2 -> MLAT
      [] value = 3 -> FLARM
      [] OTHER -> ADSB

PositionSource_from_str_nocase(value) ==
    CASE value \in {"ADSB", "adsb", "ADS-B"} -> ADSB
      [] value \in {"ASTERIX", "asterix"} -> ASTERIX
      [] value \in {"MLAT", "mlat"} -> MLAT
      [] value \in {"FLARM", "flarm"} -> FLARM
      [] OTHER -> ADSB

PositionSource_from_str(value) ==
    CASE value = "ADSB" -> ADSB
      [] value = "ASTERIX" -> ASTERIX
      [] value = "MLAT" -> MLAT
      [] value = "FLARM" -> FLARM
      [] OTHER -> ADSB

PositionSource_deserialize(val) ==
    CASE IsNumber(val) ->
           IF as_u64(val) = None
           THEN Panic("unwrap on None")
           ELSE Ok(PositionSource_from_u8(AsU8(as_u64(val)[1])))
      [] Tag(val) = "str" -> Ok(PositionSource_from_str(Payload(val)))
      [] OTHER -> Err("expected a number")

\* Arms 0 => NoInformation .. 20 => LineObstacle give each ordinal its own
\* discriminant; the wildcard arm gives NoInformation.
AirCraftCategory_from_u8(value) ==
    IF value \in 0..20 THEN value ELSE NoInformation

AirCraftCategory_from_str(value) ==
    CASE value = "NoInformation" -> 0
      [] value = "NoADSB" -> 1
      [] value = "Light" -> 2
      [] value = "Small" -> 3
      [] value = "Large" -> 4
      [] value = "HighVortexLarge" -> 5
      [] value = "Heavy" -> 6
      [] value = "HighPerformance" -> 7
      [] value = "Rotorcraft" -> 8
      [] value = "Glider" -> 9
      [] value = "LighterThanAir" -> 10
      [] value = "Parachutist" -> 11
      [] value = "Ultralight" -> 12
      [] value = "Reserved" -> 13
      [] value = "UAV" -> 14
      [] value = "Space" -> 15
      [] value = "SurfaceEmergency" -> 16
      [] value = "SurfaceService" -> 17
      [] value = "PointObstacle" -> 18
      [] value = "ClusterObstacle" -> 19
      [] value = "LineObstacle" -> 20
      [] OTHER -> NoInformation

AirCraftCategory_deserialize(val) ==
    CASE IsNumber(val) ->
           IF as_u64(val) = None
           THEN Panic("unwrap on None")
           ELSE Ok(AirCraftCategory_from_u8(AsU8(as_u64(val)[1])))
      [] Tag(val) = "str" -> Ok(AirCraftCategory_from_str(Payload(val)))
      [] OTHER -> Err("expected a number")

\* The lines the fallback arm of From<u8> prints.
PositionSource_from_u8_log(value) ==
    IF value \in {0, 1, 2, 3} THEN <<>> ELSE <<"unknown position source">>

\* The lines the fallback arm of From<&str> prints.
PositionSource_from_str_log(value) ==
    IF value \in {"ADSB", "ASTERIX", "MLAT", "FLARM"}
    THEN <<>>
    ELSE <<"unknown position source">>

PositionSource_deserialize_log(val) ==
    CASE IsNumber(val) /\ as_u64(val) # None ->
           PositionSource_from_u8_log(AsU8(as_u64(val)[1]))
      [] Tag(val) = "str" -> PositionSource_from_str_log(Payload(val))
      [] OTHER -> <<>>

\* No arm of From<u8> for AirCraftCategory prints.
AirCraftCategory_from_u8_log(value) == <<>>

\* The lines the fallback arm of From<&str> prints: every string that
\* AirCraftCategory_from_str sends to its wildcard arm.
AirCraftCategory_from_str_log(value) ==
    IF \E i \in 1..21 : AirCraftCategoryNames[i] = value
    THEN <<>>
    ELSE <<"unknown aircraft category">>

AirCraftCategory_deserialize_log(val) ==
    CASE IsNumber(val) /\ as_u64(val) # None ->
           AirCraftCategory_from_u8_log(AsU8(as_u64(val)[1]))
      [] Tag(val) = "str" -> AirCraftCategory_from_str_log(Payload(val))
      [] OTHER -> <<>>

------------------------------------------------------------------------------
(* Documents: what a serializer writes, and what reading it back gives    *)

\* A document is a scalar or array as in serde_json::Value, or a map
\* <<"map", members>> whose members are <<key, document>> pairs in the
\* order they were written.
JMap(members) == <<"map", members>>

RECURSIVE Parse(_)
\* The serde_json::Value read from document d: the members of a map lose
\* their order and a repeated key keeps its last value.
Parse(d) ==
    CASE Tag(d) = "map" ->
           LET ms == Payload(d)
               Last(k) == CHOOSE i \in 1..Len(ms) :
                             /\ ms[i][1] = k
                             /\ \A j \in (i + 1)..Len(ms) : ms[j][1] # k
           IN  <<"obj", [k \in {ms[i][1] : i \in 1..Len(ms)} |->
                            Parse(ms[Last(k)][2])]>>
      [] Tag(d) = "arr" ->
           <<"arr", [i \in 1..Len(Payload(d)) |-> Parse(Payload(d)[i])]>>
      [] OTHER -> d

------------------------------------------------------------------------------
(* Derived Serialize of the two enums (states.rs)                          *)

PositionSource_serialize_ordinal(self) == JU64(self)

\* derive(Serialize) on a unit-only enum writes the variant name.
PositionSource_serialize(self) == JStr(PositionSourceNames[self + 1])

AirCraftCategory_serialize(self) == JStr(AirCraftCategoryNames[self + 1])

------------------------------------------------------------------------------
(* serde_json::from_value::<T> for the field types of StateVector          *)

\* A number read as f32, in units of 1/F32Scale.
ToF32(val) == IF Tag(val) = "f64" THEN Payload(val) ELSE Payload(val) * F32Scale

IsVecU64(val) ==
    Tag(val) = "arr" /\ \A i \in 1..Len(Payload(val)) : Tag(Payload(val)[i]) = "u64"

VecU64(val) == [i \in 1..Len(Payload(val)) |-> Payload(Payload(val)[i])]

from_value(ty, val) ==
    CASE ty = "String" ->
           IF Tag(val) = "str" THEN Ok(Payload(val)) ELSE Err("invalid type")
      [] ty = "Option<String>" ->
           CASE Tag(val) = "null" -> Ok(None)
             [] Tag(val) = "str" -> Ok(Some(Payload(val)))
             [] OTHER -> Err("invalid type")
      [] ty = "u64" ->
           IF Tag(val) = "u64" THEN Ok(Payload(val)) ELSE Err("invalid type")
      [] ty = "Option<u64>" ->
           CASE Tag(val) = "null" -> Ok(None)
             [] Tag(val) = "u64" -> Ok(Some(Payload(val)))
             [] OTHER -> Err("invalid type")
      [] ty = "Option<f32>" ->
           CASE Tag(val) = "null" -> Ok(None)
             [] IsNumber(val) -> Ok(Some(ToF32(val)))
             [] OTHER -> Err("invalid type")
      [] ty = "bool" ->
           IF Tag(val) = "bool" THEN Ok(Payload(val)) ELSE Err("invalid type")
      [] ty = "Option<Vec<u64>>" ->
           CASE Tag(val) = "null" -> Ok(None)
             [] IsVecU64(val) -> Ok(Some(VecU64(val)))
             [] OTHER -> Err("invalid type")
      [] ty = "PositionSource" -> PositionSource_deserialize(val)
      [] ty = "Option<AirCraftCategory>" ->
           IF Tag(val) = "null"
           THEN Ok(None)
           ELSE LET r == AirCraftCategory_deserialize(val)
                IN  IF r.kind = "ok" THEN Ok(Some(r.v)) ELSE r

\* Result::unwrap: an Err aborts the call.
unwrap(r) == IF r.kind = "err" THEN Panic("unwrap on Err") ELSE r

------------------------------------------------------------------------------
(* Positional record decoder of StateVector (states.rs)                    *)

\* Field names of struct StateVector in declaration order (index + 1).
StateVectorFields ==
    <<"icao24", "callsign", "origin_country", "time_position",
      "last_contact", "longitude", "latitude", "baro_altitude", "on_ground",
      "velocity", "true_track", "vertical_rate", "sensors", "geo_altitude",
      "squawk", "spi", "position_source", "category">>

\* Field types of struct StateVector in declaration order (index + 1).
StateVectorTypes ==
    <<"String", "Option<String>", "String", "Option<u64>", "u64",
      "Option<f32>", "Option<f32>", "Option<f32>", "bool", "Option<f32>",
      "Option<f32>", "Option<f32>", "Option<Vec<u64>>", "Option<f32>",
      "Option<String>", "bool", "PositionSource",
      "Option<AirCraftCategory>">>

FieldIndex(name) == IndexOf(StateVectorFields, name) + 1

\* The outcomes of the field expressions, in evaluation order, reduced to
\* the record they build or to the first panic.
BuildStateVector(outs) ==
    IF \E i \in 1..Len(outs) : outs[i].kind # "ok"
    THEN outs[CHOOSE i \in 1..Len(outs) :
                /\ outs[i].kind # "ok"
                /\ \A j \in 1..(i - 1) : outs[j].kind = "ok"]
    ELSE Ok([name \in {StateVectorFields[i] : i \in 1..Len(outs)} |->
                outs[FieldIndex(name)].v])

\* value[i] on a Vec: an index past the end aborts the call.
IndexVec(value, i, ty) ==
    IF i + 1 <= Len(value)
    THEN unwrap(from_value(ty, value[i + 1]))
    ELSE Panic("index out of bounds")

CategoryOfVec_alwaysNone(value) == Ok(None)

CategoryOfVec(value) ==
    IF Len(value) = 18
    THEN IndexVec(value, 17, StateVectorTypes[18])
    ELSE Ok(None)

\* The element read for each field when longitude and latitude are
\* crossed.
StateVector_from_vec_crossed(value) ==
    BuildStateVector(
        [i \in 1..18 |->
            CASE i = 6 -> IndexVec(value, 6, StateVectorTypes[i])
              [] i = 7 -> IndexVec(value, 5, StateVectorTypes[i])
              [] i <= 17 -> IndexVec(value, i - 1, StateVectorTypes[i])
              [] OTHER -> CategoryOfVec(value)])

StateVector_from_vec(value) ==
    BuildStateVector(
        [i \in 1..18 |->
            IF i <= 17
            THEN IndexVec(value, i - 1, StateVectorTypes[i])
            ELSE CategoryOfVec(value)])

\* map.get(key).unwrap(): a missing key aborts the call.
GetKey(map, key, ty) ==
    IF key \in DOMAIN map
    THEN unwrap(from_value(ty, map[key]))
    ELSE Panic("unwrap on None")

StateVector_from_map(map) ==
    BuildStateVector(
        [i \in 1..18 |-> GetKey(map, StateVectorFields[i], StateVectorTypes[i])])

StateVector_deserialize(all) ==
    CASE Tag(all) = "arr" -> StateVector_from_vec(Payload(all))
      [] Tag(all) = "obj" -> StateVector_from_map(Payload(all))
      [] OTHER -> Err("expected an array")

\* The lines from_value prints at type ty: only the enum fields print.
from_value_log(ty, val) ==
    CASE ty = "PositionSource" -> PositionSource_deserialize_log(val)
      [] ty = "Option<AirCraftCategory>" /\ Tag(val) # "null" ->
           AirCraftCategory_deserialize_log(val)
      [] OTHER -> <<>>

\* The lines the two enum fields print, when the fields before them were
\* converted: at[i] is the wire value of field i, or None when it has none.
EnumFieldsLog(outs, at) ==
    LET Reached(i) == at[i] # None /\ \A j \in 1..(i - 1) : outs[j].kind = "ok"
        LogOf(i) == IF Reached(i)
                    THEN from_value_log(StateVectorTypes[i], at[i][1])
                    ELSE <<>>
    IN  LogOf(17) \o LogOf(18)

StateVector_from_vec_log(value) ==
    LET outs == [i \in 1..18 |->
                    IF i <= 17
                    THEN IndexVec(value, i - 1, StateVectorTypes[i])
                    ELSE CategoryOfVec(value)]
        at == [i \in 1..18 |->
                  CASE i <= 17 /\ i <= Len(value) -> Some(value[i])
                    [] i = 18 /\ Len(value) = 18 -> Some(value[i])
                    [] OTHER -> None]
    IN  EnumFieldsLog(outs, at)

StateVector_from_map_log(map) ==
    LET outs == [i \in 1..18 |->
                    GetKey(map, StateVectorFields[i], StateVectorTypes[i])]
        at == [i \in 1..18 |->
                  IF StateVectorFields[i] \in DOMAIN map
                  THEN Some(map[StateVectorFields[i]])
                  ELSE None]
    IN  EnumFieldsLog(outs, at)

StateVector_deserialize_log(all) ==
    CASE Tag(all) = "arr" -> StateVector_from_vec_log(Payload(all))
      [] Tag(all) = "obj" -> StateVector_from_map_log(Payload(all))
      [] OTHER -> <<>>

------------------------------------------------------------------------------
(* Collection decoder of States (states.rs)                                *)

\* Bytes that are not a JSON text.
Malformed == <<"malformed", 0>>

\* The outcomes of decoding the elements of a sequence in order, reduced
\* to the sequence of their values or to the first failure.
Collect(outs) ==
    IF \E i \in 1..Len(outs) : outs[i].kind # "ok"
    THEN outs[CHOOSE i \in 1..Len(outs) :
                /\ outs[i].kind # "ok"
                /\ \A j \in 1..(i - 1) : outs[j].kind = "ok"]
    ELSE Ok([i \in 1..Len(outs) |-> outs[i].v])

\* Value::get(key): Some only on an object that has the key.
get(obj, key) ==
    IF Tag(obj) = "obj" /\ key \in DOMAIN Payload(obj) THEN Some(Payload(obj)[key]) ELSE None

VecStateVector_deserialize_reversed(arr) ==
    Collect([i \in 1..Len(arr) |-> StateVector_deserialize(arr[Len(arr) + 1 - i])])

VecStateVector_deserialize(arr) ==
    Collect([i \in 1..Len(arr) |-> StateVector_deserialize(arr[i])])

StatesOf_nullIsError(states) ==
    CASE Tag(states) = "arr" -> VecStateVector_deserialize(Payload(states))
      [] OTHER -> Err("expected an array")

StatesOf(states) ==
    CASE Tag(states) = "null" -> Ok(<<>>)
      [] Tag(states) = "arr" -> VecStateVector_deserialize(Payload(states))
      [] OTHER -> Err("expected an array")

States_deserialize(obj) ==
    CASE Tag(obj) = "malformed" -> Err("syntax error")
      [] get(obj, "time") = None -> Panic("unwrap on None")
      [] as_u64(get(obj, "time")[1]) = None -> Panic("unwrap on None")
      [] get(obj, "states") = None -> Panic("unwrap on None")
      [] OTHER ->
           LET time == as_u64(get(obj, "time")[1])[1]
               states == StatesOf(get(obj, "states")[1])
           IN  IF states.kind = "ok"
               THEN Ok([time |-> time, states |-> states.v])
               ELSE states

RECURSIVE ConcatUpTo(_, _)
\* The concatenation of the first n sequences of logs.
ConcatUpTo(logs, n) ==
    IF n = 0 THEN <<>> ELSE ConcatUpTo(logs, n - 1) \o logs[n]

\* The lines printed while the elements of arr are decoded in order, up to
\* and including the first element that fails.
VecStateVector_deserialize_log(arr) ==
    LET outs == [i \in 1..Len(arr) |-> StateVector_deserialize(arr[i])]
        logs == [i \in 1..Len(arr) |->
                    IF \A j \in 1..(i - 1) : outs[j].kind = "ok"
                    THEN StateVector_deserialize_log(arr[i])
                    ELSE <<>>]
    IN  ConcatUpTo(logs, Len(arr))

States_deserialize_log(obj) ==
    IF /\ get(obj, "time") # None
       /\ as_u64(get(obj, "time")[1]) # None
       /\ get(obj, "states") # None
       /\ Tag(get(obj, "states")[1]) = "arr"
    THEN VecStateVector_deserialize_log(Payload(get(obj, "states")[1]))
    ELSE <<>>

------------------------------------------------------------------------------
(* Derived Serialize of StateVector and States (states.rs)                 *)

\* Serialize of an Option<f64>: null, or a number with a fraction.
OptionF64(x) == IF x = None THEN JNull ELSE JF64(x[1])

\* derive(Serialize) on struct Waypoint (tracks.rs).
Waypoint_serialize(self) ==
    JMap(<< <<"time", JU64(self.time)>>,
            <<"latitude", OptionF64(self.latitude)>>,
            <<"longitude", OptionF64(self.longitude)>>,
            <<"baro_altitude", OptionF64(self.baro_altitude)>>,
            <<"true_track", OptionF64(self.true_track)>>,
            <<"on_ground", JBool(self.on_ground)>> >>)

\* Serialize of a value x of field type ty; an f32 is written with a
\* fraction, so it reads back as a Float.
serialize_field(ty, x) ==
    CASE ty = "String" -> JStr(x)
      [] ty \in {"u64", "u16"} -> JU64(x)
      [] ty = "f64" -> JF64(x)
      [] ty = "bool" -> JBool(x)
      [] ty = "PositionSource" -> PositionSource_serialize(x)
      [] ty = "Vec<Waypoint>" ->
           JArr([i \in 1..Len(x) |-> Waypoint_serialize(x[i])])
      [] x = None -> JNull
      [] ty = "Option<u32>" -> JU64(x[1])
      [] ty = "Option<String>" -> JStr(x[1])
      [] ty = "Option<u64>" -> JU64(x[1])
      [] ty = "Option<f32>" -> JF64(x[1])
      [] ty = "Option<Vec<u64>>" ->
           JArr([i \in 1..Len(x[1]) |-> JU64(x[1][i])])
      [] ty = "Option<AirCraftCategory>" -> AirCraftCategory_serialize(x[1])

\* The members a serializer that skips absent fields would write.
StateVector_serialize_skipNone(self) ==
    JMap(SelectSeq(
        [i \in 1..18 |->
            <<StateVectorFields[i],
              serialize_field(StateVectorTypes[i], self[StateVectorFields[i]])>>],
        LAMBDA m : m[2] # JNull))

\* derive(Serialize) on struct StateVector: one member per field, in
\* declaration order.
StateVector_serialize(self) ==
    JMap([i \in 1..18 |->
            <<StateVectorFields[i],
              serialize_field(StateVectorTypes[i], self[StateVectorFields[i]])>>])

States_serialize_statesFirst(self) ==
    JMap(<<
        <<"states", JArr([i \in 1..Len(self.states) |->
                            StateVector_serialize(self.states[i])])>>,
        <<"time", JU64(self.time)>> >>)

\* derive(Serialize) on struct States.
States_serialize(self) ==
    JMap(<<
        <<"time", JU64(self.time)>>,
        <<"states", JArr([i \in 1..Len(self.states) |->
                            StateVector_serialize(self.states[i])])>> >>)

------------------------------------------------------------------------------
(* Derived decoders of lib.rs: InnerOpenSkyStates, ShortInnerOpenSkyStates *)

\* Element types of tuple struct InnerStateVector (index + 1).
InnerStateVectorTypes ==
    <<"String", "Option<String>", "String", "Option<u64>", "u64",
      "Option<f32>", "Option<f32>", "Option<f32>", "bool", "Option<f32>",
      "Option<f32>", "Option<f32>", "Option<Vec<u64>>", "Option<f32>",
      "Option<String>", "bool", "u8", "u32">>

\* Element types of tuple struct ShortInnerStateVector (index + 1).
ShortInnerStateVectorTypes == SubSeq(InnerStateVectorTypes, 1, 17)

\* Deserialize of one tuple element; u8 rejects what does not fit 8 bits
\* (every modelled PosInt fits u32).
de_element(ty, val) ==
    CASE ty = "u8" ->
           IF Tag(val) = "u64" /\ Payload(val) < 256 THEN Ok(Payload(val))
           ELSE Err("invalid value")
      [] ty = "u32" ->
           IF Tag(val) = "u64" THEN Ok(Payload(val)) ELSE Err("invalid type")
      [] OTHER -> from_value(ty, val)

\* Derived Deserialize of a tuple struct with element types tys: the
\* elements are read in order, then the end of the array is required.
TupleStruct_deserialize(tys, val) ==
    IF Tag(val) # "arr"
    THEN Err("invalid type")
    ELSE LET n == IF Len(Payload(val)) < Len(tys) THEN Len(Payload(val)) ELSE Len(tys)
             outs == Collect([i \in 1..n |-> de_element(tys[i], Payload(val)[i])])
         IN  CASE outs.kind # "ok" -> outs
               [] Len(Payload(val)) < Len(tys) -> Err("invalid length")
               [] Len(Payload(val)) > Len(tys) -> Err("trailing characters")
               [] OTHER -> outs

VecTuple_deserialize(tys, val) ==
    IF Tag(val) # "arr"
    THEN Err("invalid type")
    ELSE Collect([i \in 1..Len(Payload(val)) |-> TupleStruct_deserialize(tys, Payload(val)[i])])

\* Derived Deserialize of struct {time: u64, states: Vec<tuple struct>}:
\* a map with both keys, or the two fields as a sequence.
InnerStates_deserialize(tys, body) ==
    LET Both(t, s) ==
            CASE t.kind # "ok" -> t
              [] s.kind # "ok" -> s
              [] OTHER -> Ok([time |-> t.v, states |-> s.v])
        Fields(time, states) ==
            Both(from_value("u64", time), VecTuple_deserialize(tys, states))
    IN  CASE Tag(body) = "malformed" -> Err("syntax error")
          [] Tag(body) = "obj" ->
               CASE "time" \notin DOMAIN Payload(body) -> Err("missing field time")
                 [] "states" \notin DOMAIN Payload(body) -> Err("missing field states")
                 [] OTHER -> Fields(Payload(body)["time"], Payload(body)["states"])
          [] Tag(body) = "arr" ->
               CASE Len(Payload(body)) < 2 -> Err("invalid length")
                 [] Len(Payload(body)) > 2 ->
                      LET r == Fields(Payload(body)[1], Payload(body)[2])
                      IN  IF r.kind = "ok" THEN Err("trailing characters") ELSE r
                 [] OTHER -> Fields(Payload(body)[1], Payload(body)[2])
          [] OTHER -> Err("invalid type")

\* serde_json::from_slice::<InnerOpenSkyStates>
ParseLong(body) == InnerStates_deserialize(InnerStateVectorTypes, body)

\* serde_json::from_slice::<ShortInnerOpenSkyStates>
ParseShort(body) == InnerStates_deserialize(ShortInnerStateVectorTypes, body)

\* StateVector::from_inner: the 18th element becomes Some(undocumented).
StateVector_from_inner(isv) ==
    [name \in {StateVectorFields[i] : i \in 1..17} \cup {"undocumented"} |->
        IF name = "undocumented" THEN Some(isv[18]) ELSE isv[FieldIndex(name)]]

\* StateVector::from_short_inner: undocumented is None.
StateVector_from_short_inner(isv) ==
    [name \in {StateVectorFields[i] : i \in 1..17} \cup {"undocumented"} |->
        IF name = "undocumented" THEN None ELSE isv[FieldIndex(name)]]

OpenSkyStates_from_inner(inner) ==
    [time |-> inner.time,
     states |-> [i \in 1..Len(inner.states) |->
                    StateVector_from_inner(inner.states[i])]]

OpenSkyStates_from_short_inner(inner) ==
    [time |-> inner.time,
     states |-> [i \in 1..Len(inner.states) |->
                    StateVector_from_short_inner(inner.states[i])]]

------------------------------------------------------------------------------
(* StateRequest::send                                                      *)

InvalidJson(of, r) ==
    Err([variant |-> "InvalidJson", source |-> [of |-> of, msg |-> r.v]])

Http(code) == Err([variant |-> "Http", source |-> code])

Reqwest(cause) == Err([variant |-> "Reqwest", source |-> cause])

\* res.bytes() failing.
Unreadable == <<"unreadable", 0>>

\* reqwest::StatusCode::OK
StatusOK == 200

\* BoundingBox::new: the four bounds, in units of 1/F32Scale.
BoundingBox_new(lat_min, lat_max, long_min, long_max) ==
    [lat_min |-> lat_min, lat_max |-> lat_max,
     long_min |-> long_min, long_max |-> long_max]

\* The pieces of a query string: the two separators and a key=value pair.
Question == <<"?", 0>>

Ampersand == <<"&", 0>>

Param(key, v) == <<key, v>>

push_separator_question(args) == Append(args, Question)

\* args.push('?') on an empty query string, args.push('&') otherwise.
push_separator(args) ==
    IF args = <<>> THEN Append(args, Question) ELSE Append(args, Ampersand)

\* The time parameter of StateRequest::send: '?' only on an empty string.
push_time(args, req) ==
    IF req.time # None
    THEN (IF args = <<>> THEN Append(args, Question) ELSE args)
         \o <<Param("time", req.time[1])>>
    ELSE args

\* The four bounds of the box, written by one format string.
push_bbox(args, req) ==
    IF req.bbox # None
    THEN push_separator(args)
         \o <<Param("lamin", req.bbox[1].lat_min), Ampersand,
              Param("lomin", req.bbox[1].long_min), Ampersand,
              Param("lamax", req.bbox[1].lat_max), Ampersand,
              Param("lomax", req.bbox[1].long_max)>>
    ELSE args

\* key=first, then &key=each of the rest, in the order of the list.
RECURSIVE push_rest(_, _, _, _)
push_rest(args, key, list, i) ==
    IF i > Len(list)
    THEN args
    ELSE push_rest(args \o <<Ampersand, Param(key, list[i])>>, key, list, i + 1)

push_list(args, key, list) ==
    IF list # <<>>
    THEN push_rest(Append(push_separator(args), Param(key, list[1])),
                   key, list, 2)
    ELSE args

\* The url StateRequest::send requests: the login part, the endpoint and
\* the query string.
StateRequest_url(req) ==
    [login |-> req.login,
     path |-> "states",
     endpoint |-> IF req.serials # <<>> THEN "own" ELSE "all",
     args |-> push_list(push_list(push_bbox(push_time(<<>>, req), req),
                                  "icao24", req.icao24_addresses),
                        "serials", req.serials)]

\* The body of the OK arm of lib.rs: the parses attempted, in order, and
\* the value returned.
Lib_decode_shortFirst(req, body) ==
    LET short == ParseShort(body)
        long == ParseLong(body)
    IN  IF req.time # None
        THEN [attempts |-> <<"short">>,
              result |-> IF short.kind = "ok"
                         THEN Ok(OpenSkyStates_from_short_inner(short.v))
                         ELSE InvalidJson("ShortInnerOpenSkyStates", short)]
        ELSE IF short.kind = "ok"
             THEN [attempts |-> <<"short">>,
                   result |-> Ok(OpenSkyStates_from_short_inner(short.v))]
             ELSE [attempts |-> <<"short", "long">>,
                   result |-> IF long.kind = "ok"
                              THEN Ok(OpenSkyStates_from_inner(long.v))
                              ELSE InvalidJson("InnerOpenSkyStates", long)]

Lib_decode_alwaysChain(req, body) ==
    LET short == ParseShort(body)
        long == ParseLong(body)
    IN  IF long.kind = "ok"
        THEN [attempts |-> <<"long">>,
              result |-> Ok(OpenSkyStates_from_inner(long.v))]
        ELSE [attempts |-> <<"long", "short">>,
              result |-> IF short.kind = "ok"
                         THEN Ok(OpenSkyStates_from_short_inner(short.v))
                         ELSE InvalidJson("ShortInnerOpenSkyStates", short)]

Lib_decode(req, body) ==
    LET Attempts(short, long) ==
            IF req.time # None
            THEN [attempts |-> <<"short">>,
                  result |-> IF short.kind = "ok"
                             THEN Ok(OpenSkyStates_from_short_inner(short.v))
                             ELSE InvalidJson("ShortInnerOpenSkyStates", short)]
            ELSE IF long.kind = "ok"
                 THEN [attempts |-> <<"long">>,
                       result |-> Ok(OpenSkyStates_from_inner(long.v))]
                 ELSE [attempts |-> <<"long", "short">>,
                       result |-> IF short.kind = "ok"
                                  THEN Ok(OpenSkyStates_from_short_inner(short.v))
                                  ELSE InvalidJson("ShortInnerOpenSkyStates", short)]
    IN  Attempts(ParseShort(body), ParseLong(body))

\* StateRequest::send of lib.rs on a response (st = None: the request
\* itself failed).
Lib_StateRequest_send(req, st, body) ==
    CASE st = None -> [attempts |-> <<>>, result |-> Reqwest("get")]
      [] st # Some(StatusOK) -> [attempts |-> <<>>, result |-> Http(st[1])]
      [] Tag(body) = "unreadable" -> [attempts |-> <<>>, result |-> Reqwest("bytes")]
      [] OTHER -> Lib_decode(req, body)

\* StateRequest::send of states.rs: one decode of the body as States.
States_StateRequest_send(req, st, body) ==
    CASE st = None -> [attempts |-> <<>>, result |-> Reqwest("get")]
      [] st # Some(StatusOK) -> [attempts |-> <<>>, result |-> Http(st[1])]
      [] Tag(body) = "unreadable" -> [attempts |-> <<>>, result |-> Reqwest("bytes")]
      [] OTHER ->
           LET r == States_deserialize(body)
           IN  [attempts |-> <<"States">>,
                result |-> IF r.kind = "err" THEN InvalidJson("States", r) ELSE r]

\* The lines send of states.rs prints: those of the decode, when the body
\* is decoded.
States_StateRequest_send_log(req, st, body) ==
    IF st = Some(StatusOK) /\ Tag(body) # "unreadable"
    THEN States_deserialize_log(body)
    ELSE <<>>

------------------------------------------------------------------------------
(* Waypoint decoder (tracks.rs)                                            *)

\* Value::as_f64: Some for every number, in units of 1/F32Scale.
as_f64(val) ==
    CASE Tag(val) = "f64" -> Some(Payload(val))
      [] Tag(val) \in {"u64", "i64"} -> Some(Payload(val) * F32Scale)
      [] OTHER -> None

\* Value::as_bool.
as_bool(val) == IF Tag(val) = "bool" THEN Some(Payload(val)) ELSE None

\* Option::unwrap: None aborts the call.
unwrap_option(o) == IF o = None THEN Panic("unwrap on None") ELSE Ok(o[1])

\* The outcomes of the field expressions of a struct literal, in
\* evaluation order, reduced to the record they build or to the first one
\* that is not ok.
BuildRecord(fields, outs) ==
    IF \E i \in 1..Len(outs) : outs[i].kind # "ok"
    THEN outs[CHOOSE i \in 1..Len(outs) :
                /\ outs[i].kind # "ok"
                /\ \A j \in 1..(i - 1) : outs[j].kind = "ok"]
    ELSE Ok([name \in {fields[i] : i \in 1..Len(outs)} |->
                outs[IndexOf(fields, name) + 1].v])

\* Field names of struct Waypoint in declaration order (index + 1).
WaypointFields ==
    <<"time", "latitude", "longitude", "baro_altitude", "true_track",
      "on_ground">>

\* The expression that converts wire value val to field name of Waypoint.
WaypointField(name, val) ==
    CASE name = "time" -> unwrap_option(as_u64(val))
      [] name = "on_ground" -> unwrap_option(as_bool(val))
      [] OTHER -> Ok(as_f64(val))

Waypoint_from_vec(value) ==
    BuildRecord(WaypointFields,
        [i \in 1..6 |->
            IF i <= Len(value)
            THEN WaypointField(WaypointFields[i], value[i])
            ELSE Panic("index out of bounds")])

\* The key read for each field when latitude and longitude are crossed.
WaypointKeys_crossed ==
    <<"time", "longitude", "latitude", "baro_altitude", "true_track",
      "on_ground">>

Waypoint_from_map_crossed(value) ==
    BuildRecord(WaypointFields,
        [i \in 1..6 |->
            IF WaypointKeys_crossed[i] \in DOMAIN value
            THEN WaypointField(WaypointFields[i], value[WaypointKeys_crossed[i]])
            ELSE Panic("no entry found for key")])

\* value[key] on a Map: a missing key aborts the call.
Waypoint_from_map(value) ==
    BuildRecord(WaypointFields,
        [i \in 1..6 |->
            IF WaypointFields[i] \in DOMAIN value
            THEN WaypointField(WaypointFields[i], value[WaypointFields[i]])
            ELSE Panic("no entry found for key")])

Waypoint_deserialize(values) ==
    CASE Tag(values) = "malformed" -> Err("syntax")
      [] Tag(values) = "arr" -> Waypoint_from_vec(Payload(values))
      [] Tag(values) = "obj" -> Waypoint_from_map(Payload(values))
      [] OTHER -> Err("expected array")

------------------------------------------------------------------------------
(* Derived Serialize and Deserialize of FlightTrack (tracks.rs) and        *)
(* Flight (flights.rs)                                                     *)

\* Field names, serde aliases (the name itself where there is none) and
\* types of struct FlightTrack, in declaration order.
FlightTrackFields == <<"icao24", "start_time", "end_time", "callsign", "path">>

FlightTrackAliases_none == FlightTrackFields

FlightTrackAliases == <<"icao24", "startTime", "endTime", "callsign", "path">>

FlightTrackTypes == <<"String", "f64", "f64", "Option<String>", "Vec<Waypoint>">>

\* The same three tables of struct Flight.
FlightFields ==
    <<"icao24", "first_seen", "est_departure_airport", "last_seen",
      "est_arrival_airport", "callsign",
      "est_departure_airport_horiz_distance",
      "est_departure_airport_vert_distance",
      "est_arrival_airport_horiz_distance",
      "est_arrival_airport_vert_distance",
      "departure_airport_candidates_count",
      "arrival_airport_candidates_count">>

FlightAliases ==
    <<"icao24", "firstSeen", "estDepartureAirport", "lastSeen",
      "estArrivalAirport", "callsign",
      "estDepartureAirportHorizDistance",
      "estDepartureAirportVertDistance",
      "estArrivalAirportHorizDistance",
      "estArrivalAirportVertDistance",
      "departureAirportCandidatesCount",
      "arrivalAirportCandidatesCount">>

FlightTypes ==
    <<"String", "u64", "Option<String>", "u64", "Option<String>",
      "Option<String>", "Option<u32>", "Option<u32>", "Option<u32>",
      "Option<u32>", "u16", "u16">>

\* Largest u16.
U16Max == 65535

\* Deserialize of field type ty from wire value val.  Every u64 the
\* model holds fits a u32.
de_field(ty, val) ==
    CASE ty = "f64" ->
           IF IsNumber(val) THEN Ok(as_f64(val)[1]) ELSE Err("invalid type")
      [] ty = "u16" ->
           CASE Tag(val) # "u64" -> Err("invalid type")
             [] Payload(val) > U16Max -> Err("invalid value")
             [] OTHER -> Ok(Payload(val))
      [] ty = "Option<u32>" ->
           CASE Tag(val) = "null" -> Ok(None)
             [] Tag(val) = "u64" -> Ok(Some(Payload(val)))
             [] OTHER -> Err("invalid type")
      [] ty = "Vec<Waypoint>" ->
           IF Tag(val) = "arr"
           THEN Collect([i \in 1..Len(Payload(val)) |->
                           Waypoint_deserialize(Payload(val)[i])])
           ELSE Err("invalid type")
      [] OTHER -> from_value(ty, val)

\* Derived Deserialize of a struct from a map: each field is read from
\* the key of its name or of its alias, both keys at once are a duplicate
\* field, other keys are ignored, and a field without key is None when it
\* is an Option and a missing field otherwise.  From a sequence the
\* fields are read in order.
Struct_deserialize(fields, aliases, types, val) ==
    LET n == Len(fields)
        KeysOf(i) == {fields[i], aliases[i]} \cap DOMAIN Payload(val)
        FromKey(i) ==
            CASE Cardinality(KeysOf(i)) = 2 -> Err("duplicate field")
              [] Cardinality(KeysOf(i)) = 1 ->
                   de_field(types[i], Payload(val)[CHOOSE k \in KeysOf(i) : TRUE])
              [] types[i] \in {"Option<String>", "Option<u32>"} -> Ok(None)
              [] OTHER -> Err("missing field")
        FromElement(i) ==
            IF i <= Len(Payload(val))
            THEN de_field(types[i], Payload(val)[i])
            ELSE Err("invalid length")
    IN  CASE Tag(val) = "obj" -> BuildRecord(fields, [i \in 1..n |-> FromKey(i)])
          [] Tag(val) = "arr" ->
               LET r == BuildRecord(fields, [i \in 1..n |-> FromElement(i)])
               IN  IF r.kind = "ok" /\ Len(Payload(val)) > n
                   THEN Err("trailing characters")
                   ELSE r
          [] Tag(val) = "malformed" -> Err("syntax")
          [] OTHER -> Err("invalid type")

FlightTrack_deserialize(val) ==
    Struct_deserialize(FlightTrackFields, FlightTrackAliases, FlightTrackTypes, val)

Flight_deserialize(val) ==
    Struct_deserialize(FlightFields, FlightAliases, FlightTypes, val)

\* derive(Serialize) on a struct: one member per field under the field
\* name, in declaration order.
Struct_serialize(fields, types, self) ==
    JMap([i \in 1..Len(fields) |->
            <<fields[i], serialize_field(types[i], self[fields[i]])>>])

FlightTrack_serialize(self) ==
    Struct_serialize(FlightTrackFields, FlightTrackTypes, self)

Flight_serialize(self) == Struct_serialize(FlightFields, FlightTypes, self)

------------------------------------------------------------------------------
(* FlightsRequest::send and TrackRequest::send                             *)

\* Number of values of the unsigned type the timestamps are held in.
U64Modulus == 1073741824

\* a - b on unsigned integers: an abort where overflow is checked (debug),
\* the difference modulo the width where it is not (release).
u64_sub(a, b, profile) ==
    CASE a >= b -> Ok(a - b)
      [] profile = "debug" -> Panic("attempt to subtract with overflow")
      [] OTHER -> Ok((a - b + U64Modulus) % U64Modulus)

\* FlightsRequestType as <<variant, address>>.
All == <<"All", "">>

Aircraft(address) == <<"Aircraft", address>>

Arrival(airport) == <<"Arrival", airport>>

Departure(airport) == <<"Departure", airport>>

FlightsRequestType_max_interval(self) ==
    CASE self[1] = "All" -> 2 * 60 * 60
      [] self[1] = "Aircraft" -> 30 * 24 * 60 * 60
      [] self[1] = "Arrival" -> 7 * 24 * 60 * 60
      [] self[1] = "Departure" -> 7 * 24 * 60 * 60

FlightsRequestType_endpoint(self) ==
    CASE self[1] = "All" -> "all"
      [] self[1] = "Aircraft" -> "aircraft"
      [] self[1] = "Arrival" -> "arrival"
      [] self[1] = "Departure" -> "departure"

\* The line warn! logs for an interval above the limit.
Warning(interval, limit) == <<"warn", "Interval is larger than limits", interval, limit>>

\* The url FlightsRequest::send requests.
FlightsRequest_url(req) ==
    [login |-> req.login,
     path |-> "flights",
     endpoint |-> FlightsRequestType_endpoint(req.request_type),
     args |-> <<Question, Param("begin", req.begin), Ampersand,
                Param("end", req.end)>>
              \o CASE req.request_type[1] = "All" -> <<>>
                   [] req.request_type[1] = "Aircraft" ->
                        <<Ampersand, Param("icao24", req.request_type[2])>>
                   [] OTHER ->
                        <<Ampersand, Param("airport", req.request_type[2])>>]

\* serde_json::from_slice::<Vec<Flight>>.
VecFlight_deserialize(val) ==
    CASE Tag(val) = "arr" ->
           Collect([i \in 1..Len(Payload(val)) |->
                      Flight_deserialize(Payload(val)[i])])
      [] Tag(val) = "malformed" -> Err("syntax")
      [] OTHER -> Err("invalid type")

\* The match on the status of the flights response: 404 is an empty
\* result.
FlightsRequest_response_no404(st, body) ==
    CASE st = None -> [attempts |-> <<>>, result |-> Reqwest("get")]
      [] st # Some(StatusOK) -> [attempts |-> <<>>, result |-> Http(st[1])]
      [] Tag(body) = "unreadable" -> [attempts |-> <<>>, result |-> Reqwest("bytes")]
      [] OTHER ->
           LET Decoded(r) ==
                   [attempts |-> <<"Vec<Flight>">>,
                    result |-> IF r.kind = "err"
                               THEN InvalidJson("Vec<Flight>", r) ELSE r]
           IN  Decoded(VecFlight_deserialize(body))

FlightsRequest_response(st, body) ==
    CASE st = None -> [attempts |-> <<>>, result |-> Reqwest("get")]
      [] st = Some(404) -> [attempts |-> <<>>, result |-> Ok(<<>>)]
      [] st # Some(StatusOK) -> [attempts |-> <<>>, result |-> Http(st[1])]
      [] Tag(body) = "unreadable" -> [attempts |-> <<>>, result |-> Reqwest("bytes")]
      [] OTHER ->
           LET Decoded(r) ==
                   [attempts |-> <<"Vec<Flight>">>,
                    result |-> IF r.kind = "err"
                               THEN InvalidJson("Vec<Flight>", r) ELSE r]
           IN  Decoded(VecFlight_deserialize(body))

\* FlightsRequest::send: the interval check, then the request.  A call
\* that aborts in the check sends nothing.
FlightsRequest_send(req, st, body, profile) ==
    LET Checked(interval) ==
            IF interval.kind = "panic"
            THEN [attempts |-> <<>>, result |-> interval, log |-> <<>>,
                  url |-> <<>>]
            ELSE [attempts |-> FlightsRequest_response(st, body).attempts,
                  result |-> FlightsRequest_response(st, body).result,
                  log |-> IF interval.v >
                             FlightsRequestType_max_interval(req.request_type)
                          THEN <<Warning(interval.v,
                                   FlightsRequestType_max_interval(req.request_type))>>
                          ELSE <<>>,
                  url |-> FlightsRequest_url(req)]
    IN  Checked(u64_sub(req.end, req.begin, profile))

\* The url TrackRequest::send requests.
TrackRequest_url(req) ==
    [login |-> req.login,
     path |-> "tracks",
     endpoint |-> "all",
     args |-> <<Question, Param("icao24", req.icao24), Ampersand,
                Param("time", req.time)>>]

\* The match on the status of the tracks response.
TrackRequest_response(st, body) ==
    CASE st = None -> [attempts |-> <<>>, result |-> Reqwest("get")]
      [] st # Some(StatusOK) -> [attempts |-> <<>>, result |-> Http(st[1])]
      [] Tag(body) = "unreadable" -> [attempts |-> <<>>, result |-> Reqwest("bytes")]
      [] OTHER ->
           LET Decoded(r) ==
                   [attempts |-> <<"FlightTrack">>,
                    result |-> IF r.kind = "err"
                               THEN InvalidJson("FlightTrack", r) ELSE r]
           IN  Decoded(FlightTrack_deserialize(body))

\* TrackRequest::send at clock reading clock: the age check of a time
\* other than 0, then the request.
TrackRequest_send(req, st, body, profile, clock) ==
    LET Checked(age) ==
            IF age.kind = "panic"
            THEN [attempts |-> <<>>, result |-> age, log |-> <<>>, url |-> <<>>]
            ELSE [attempts |-> TrackRequest_response(st, body).attempts,
                  result |-> TrackRequest_response(st, body).result,
                  log |-> IF req.time # 0 /\ age.v > 30 * 24 * 60 * 60
                          THEN <<Warning(age.v, 30 * 24 * 60 * 60)>>
                          ELSE <<>>,
                  url |-> TrackRequest_url(req)]
    IN  Checked(IF req.time # 0 THEN u64_sub(clock, req.time, profile)
                ELSE Ok(0))

------------------------------------------------------------------------------
(* Request builders                                                        *)

StateRequestBuilder_new(login) ==
    [login |-> login, bbox |-> None, time |-> None,
     icao24_addresses |-> <<>>, serials |-> <<>>]

StateRequestBuilder_with_bbox(self, bbox) == [self EXCEPT !.bbox = Some(bbox)]

StateRequestBuilder_at_time(self, timestamp) ==
    [self EXCEPT !.time = Some(timestamp)]

StateRequestBuilder_with_icao24_replace(self, address) ==
    [self EXCEPT !.icao24_addresses = <<address>>]

StateRequestBuilder_with_icao24(self, address) ==
    [self EXCEPT !.icao24_addresses = Append(@, address)]

StateRequestBuilder_with_serial(self, serial) ==
    [self EXCEPT !.serials = Append(@, serial)]

\* self.inner moved out of the builder.
StateRequestBuilder_consume(self) == self

\* self.inner.clone()
StateRequestBuilder_finish(self) == self

\* The asserts are commented out: any begin and end are taken.
FlightsRequestBuilder_new(login, begin, end) ==
    [login |-> login, begin |-> begin, end |-> end, request_type |-> All]

\* in_interval: the outcome is the request with the interval set, or the
\* abort of the subtraction or of the first assert that fails.
FlightsRequestBuilder_in_interval(self, begin, end, profile) ==
    LET Checked(span) ==
            CASE span.kind = "panic" -> span
              [] ~(span.v <= 7200) ->
                   Panic("Interval must not span greater than 2 hours")
              [] ~(end > begin) ->
                   Panic("End time must be greater than begin time")
              [] OTHER -> Ok([self EXCEPT !.begin = begin, !.end = end])
    IN  Checked(u64_sub(end, begin, profile))

FlightsRequestBuilder_by_aircraft(self, address) ==
    [self EXCEPT !.request_type = Aircraft(address)]

FlightsRequestBuilder_by_arrival(self, airport_icao) ==
    [self EXCEPT !.request_type = Arrival(airport_icao)]

FlightsRequestBuilder_by_departure(self, airport_icao) ==
    [self EXCEPT !.request_type = Departure(airport_icao)]

\* self.inner moved out of the builder.
FlightsRequestBuilder_consume(self) == self

FlightsRequestBuilder_finish_fresh(self) ==
    FlightsRequestBuilder_new(self.login, self.begin, self.end)

\* self.inner.clone()
FlightsRequestBuilder_finish(self) == self

------------------------------------------------------------------------------
(* Inputs                                                                  *)

\* Largest wire ordinal tried on the enum decoders.
MaxOrdinal == 260

\* Longest positional array tried on the record decoder.
MaxLen == 19

\* Largest number of state vectors in a body.
MaxStates == 2

\* The state vector of the serde_states fixture, as the wire sends it.
Fixture ==
    <<JStr("3c6444"), JStr("DLH9LF  "), JStr("Germany"), JU64(1458564120),
      JU64(1458564120), JF64(61546), JF64(501964), JF64(96393000),
      JBool(FALSE), JF64(2328800), JF64(982600), JF64(45500), JNull,
      JF64(95478600), JStr("1000"), JBool(FALSE), JU64(0), JNull>>

FixtureTime == 1458564121

\* Wire values put at one position of the fixture.
Samples ==
    {JNull, JBool(TRUE), JU64(0), JU64(2), JU64(20), JU64(99), JU64(257),
     JI64(-1), JF64(15000), JStr("MLAT"), JStr("mlat"), JStr("Heavy"),
     JArr(<<>>), JArr(<<JU64(7)>>), JArr(<<JStr("7")>>)}

\* Strings tried on the enum decoders.
NameSamples ==
    {PositionSourceNames[i] : i \in 1..Len(PositionSourceNames)}
    \cup {AirCraftCategoryNames[i] : i \in 1..Len(AirCraftCategoryNames)}
    \cup {"mlat", "adsb", "ADS-B", "Flarm", "heavy", "LIGHT", "", "Unknown"}

\* Wire values tried on the enum decoders.
EnumWire ==
    {JU64(n) : n \in 0..MaxOrdinal}
    \cup {JStr(n) : n \in NameSamples}
    \cup {JI64(-1), JI64(-256), JF64(15000), JF64(20000), JNull, JBool(TRUE),
          JArr(<<>>)}

\* arr with position p (1-based) replaced by val.
Replace(arr, p, val) ==
    [i \in 1..Len(arr) |-> IF i = p THEN val ELSE arr[i]]

\* arr with every position of the set ps replaced by null.
Nulled(arr, ps) ==
    [i \in 1..Len(arr) |-> IF i \in ps THEN JNull ELSE arr[i]]

\* arr cut or padded to n elements.
Resize(arr, n) ==
    [i \in 1..n |-> IF i <= Len(arr) THEN arr[i] ELSE JU64(1)]

\* The positional arrays tried: the fixture with one position replaced,
\* cut or padded to a length in 0..MaxLen.
VecInputs ==
    {Resize(Replace(Fixture, p, val), n) :
        p \in 1..18, val \in Samples, n \in 0..MaxLen}

\* The object form carrying the elements of arr under the field names.
ToObject(arr) ==
    [name \in {StateVectorFields[i] : i \in 1..Len(arr)} |->
        arr[FieldIndex(name)]]

\* The fixture with an empty address, in the array and the object form.
EmptyIcao24Inputs ==
    {JArr(Replace(Fixture, 1, JStr(""))),
     JObj(ToObject(Replace(Fixture, 1, JStr(""))))}

\* The object forms tried: the fixture with one value replaced, with all
\* 18 keys or with one key left out.
MapInputs ==
    {ToObject(Replace(Fixture, p, val)) : p \in 1..18, val \in Samples}
    \cup {[name \in DOMAIN ToObject(Fixture) \ {StateVectorFields[k]} |->
              ToObject(Fixture)[name]] : k \in 1..18}

RECURSIVE SeqsUpTo(_, _)
\* The sequences over S of length at most n.
SeqsUpTo(S, n) ==
    IF n = 0
    THEN {<<>>}
    ELSE LET shorter == SeqsUpTo(S, n - 1)
         IN  shorter \cup {Append(q, x) : q \in shorter, x \in S}

\* The fixture with sensors and category present.
FullVec ==
    Replace(Replace(Fixture, 13, JArr(<<JU64(7), JU64(9)>>)), 18, JU64(6))

\* A StateVector with every optional field present.
FullStateVector == StateVector_from_vec(FullVec).v

\* Names of the fields of StateVector whose type is an Option.
OptionalFields ==
    {StateVectorFields[i] : i \in {j \in 1..18 : StateVectorTypes[j] \notin
        {"String", "u64", "bool", "PositionSource"}}}

\* The StateVector values encoded: every choice of absent optional fields,
\* and every pair of enum variants.
StateVectorValues ==
    {[name \in DOMAIN FullStateVector |->
        IF name \in A THEN None ELSE FullStateVector[name]] :
        A \in SUBSET OptionalFields}
    \cup {[FullStateVector EXCEPT !.position_source = p, !.category = c] :
            p \in 0..3, c \in {None} \cup {Some(k) : k \in 0..20}}

\* Positions (index + 1) of the optional fields of StateVector.
OptionalPositions == {i \in 1..18 : StateVectorFields[i] \in OptionalFields}

\* The positional arrays with every optional field present but those of
\* a set of positions, which are null.
NulledVecInputs == {Nulled(FullVec, ps) : ps \in SUBSET OptionalPositions}

\* StateVector values put in sequences.
StateVectorPool ==
    {FullStateVector,
     StateVector_from_vec(Fixture).v,
     [FullStateVector EXCEPT !.icao24 = "4b1806", !.position_source = FLARM,
                             !.longitude = None, !.squawk = None]}

\* The States values encoded.
StatesInputs ==
    {[time |-> FixtureTime, states |-> <<sv>>] : sv \in StateVectorValues}
    \cup {[time |-> t, states |-> q] :
            t \in {0, FixtureTime}, q \in SeqsUpTo(StateVectorPool, MaxStates)}

\* The body of the serde_states fixture.
FixtureBody ==
    JObj([k \in {"time", "states"} |->
            IF k = "time" THEN JU64(FixtureTime) ELSE JArr(<<JArr(Fixture)>>)])

\* The text serde_states expects for the fixture.
FixtureJson ==
    JMap(<<
        <<"time", JU64(1458564121)>>,
        <<"states", JArr(<<JMap(<<
            <<"icao24", JStr("3c6444")>>,
            <<"callsign", JStr("DLH9LF  ")>>,
            <<"origin_country", JStr("Germany")>>,
            <<"time_position", JU64(1458564120)>>,
            <<"last_contact", JU64(1458564120)>>,
            <<"longitude", JF64(61546)>>,
            <<"latitude", JF64(501964)>>,
            <<"baro_altitude", JF64(96393000)>>,
            <<"on_ground", JBool(FALSE)>>,
            <<"velocity", JF64(2328800)>>,
            <<"true_track", JF64(982600)>>,
            <<"vertical_rate", JF64(45500)>>,
            <<"sensors", JNull>>,
            <<"geo_altitude", JF64(95478600)>>,
            <<"squawk", JStr("1000")>>,
            <<"spi", JBool(FALSE)>>,
            <<"position_source", JStr("ADSB")>>,
            <<"category", JNull>> >>)>>)>> >>)

\* A waypoint as the tracks endpoint sends it.
WaypointFixture ==
    <<JU64(1458564120), JF64(501964), JF64(61546), JF64(96393000),
      JF64(982600), JBool(FALSE)>>

\* Longest waypoint array tried.
MaxWaypointLen == 7

\* Wire values put at one position of the waypoint fixture.
WaypointSamples ==
    {JNull, JBool(TRUE), JU64(0), JU64(300), JI64(-1), JF64(15000),
     JStr("51.5"), JArr(<<>>)}

\* The waypoint arrays tried: the fixture with any set of positions null,
\* with one position replaced, cut or padded.
WaypointVecInputs ==
    {Nulled(WaypointFixture, ps) : ps \in SUBSET (1..6)}
    \cup {Resize(Replace(WaypointFixture, p, val), n) :
            p \in 1..6, val \in WaypointSamples, n \in 0..MaxWaypointLen}

\* The object form carrying the elements of arr under the field names.
WaypointToObject(arr) ==
    [name \in {WaypointFields[i] : i \in 1..Len(arr)} |->
        arr[IndexOf(WaypointFields, name) + 1]]

\* The waypoint objects tried: the object forms of six-element arrays,
\* and the fixture with one key left out.
WaypointMapInputs ==
    {WaypointToObject(arr) : arr \in {a \in WaypointVecInputs : Len(a) = 6}}
    \cup {[name \in DOMAIN WaypointToObject(WaypointFixture)
                    \ {WaypointFields[k]} |->
              WaypointToObject(WaypointFixture)[name]] : k \in 1..6}

\* Waypoint values put in paths.
WaypointPool ==
    {Waypoint_from_vec(WaypointFixture).v,
     Waypoint_from_vec(Nulled(WaypointFixture, {2, 3, 4, 5})).v,
     Waypoint_from_vec(Nulled(Replace(WaypointFixture, 1, JU64(300)), {4})).v}

\* Longest path encoded.
MaxPath == 2

\* Seconds of the start of the track encoded.
TrackStart == 150000

\* The FlightTrack values encoded.
FlightTrackValues ==
    {[icao24 |-> "8990ed",
      start_time |-> TrackStart * F32Scale,
      end_time |-> (TrackStart + 60) * F32Scale + 5000,
      callsign |-> c,
      path |-> q] :
        c \in {None, Some("EVA261  ")}, q \in SeqsUpTo(WaypointPool, MaxPath)}

\* The second flight of the serde_flights fixture.
FlightFixture ==
    [icao24 |-> "89906d",
     first_seen |-> 1517230549,
     est_departure_airport |-> Some("RCTP"),
     last_seen |-> 1517236873,
     est_arrival_airport |-> Some("RPLL"),
     callsign |-> Some("EVA261  "),
     est_departure_airport_horiz_distance |-> Some(3571),
     est_departure_airport_vert_distance |-> Some(478),
     est_arrival_airport_horiz_distance |-> Some(7249),
     est_arrival_airport_vert_distance |-> Some(243),
     departure_airport_candidates_count |-> 1,
     arrival_airport_candidates_count |-> 0]

\* Names of the fields of Flight whose type is an Option.
FlightOptionalFields ==
    {FlightFields[i] : i \in {j \in 1..12 : FlightTypes[j] \in
        {"Option<String>", "Option<u32>"}}}

\* The Flight values encoded: every choice of absent optional fields.
FlightValues ==
    {[name \in DOMAIN FlightFixture |->
        IF name \in A THEN None ELSE FlightFixture[name]] :
        A \in SUBSET FlightOptionalFields}

\* Names the tracks endpoint gives the fields of FlightTrack.
FlightTrackWireNames == <<"icao24", "startTime", "endTime", "callsign", "path">>

\* The object m with the key of every field in A replaced by its name in
\* the table names.
Renamed(m, fields, names, A) ==
    LET key(i) == IF fields[i] \in A THEN names[i] ELSE fields[i]
    IN  [k \in {key(i) : i \in 1..Len(fields)} |->
            m[fields[CHOOSE i \in 1..Len(fields) : key(i) = k]]]

\* Fields the table names gives another name.
RenamedFields(fields, names) ==
    {fields[i] : i \in {j \in 1..Len(fields) : names[j] # fields[j]}}

\* FlightTrack objects that cannot be decoded: both keys of a field, a
\* required key left out, a value of the wrong type; and the sequence form.
FlightTrackOthers ==
    LET m == Payload(Parse(FlightTrack_serialize(
                 CHOOSE v \in FlightTrackValues : Len(v.path) = 1 /\ v.callsign # None)))
    IN  {JObj([k \in DOMAIN m \cup {"startTime"} |->
                 IF k = "startTime" THEN JU64(TrackStart) ELSE m[k]]),
         JObj([k \in DOMAIN m \ {"path"} |-> m[k]]),
         JObj([k \in DOMAIN m \ {"callsign"} |-> m[k]]),
         JObj([m EXCEPT !.start_time = JStr("now")]),
         JObj([m EXCEPT !.path = JArr(<<JArr(<<JNull>>)>>)]),
         JArr([i \in 1..5 |-> m[FlightTrackFields[i]]]),
         JArr([i \in 1..4 |-> m[FlightTrackFields[i]]]),
         JStr("track"), Malformed}

\* Flight objects that cannot be decoded, and the sequence form.
FlightOthers ==
    LET m == Payload(Parse(Flight_serialize(FlightFixture)))
    IN  {JObj([k \in DOMAIN m \cup {"firstSeen"} |->
                 IF k = "firstSeen" THEN JU64(1) ELSE m[k]]),
         JObj([k \in DOMAIN m \ {"last_seen"} |-> m[k]]),
         JObj([m EXCEPT !.departure_airport_candidates_count = JU64(U16Max + 1)]),
         JObj([m EXCEPT !.first_seen = JI64(-1)]),
         JArr([i \in 1..12 |-> m[FlightFields[i]]]),
         JArr([i \in 1..13 |-> IF i = 13 THEN JNull ELSE m[FlightFields[i]]]),
         JNull, Malformed}

\* Elements of a `states` array.
StatePool ==
    {JArr(Fixture), JArr(Resize(Fixture, 17)),
     JArr(Replace(Fixture, 18, JU64(4))),
     JArr(Replace(Resize(Fixture, 17), 1, JStr("4b1806"))),
     JArr(Replace(Fixture, 17, JU64(257))),
     JArr(Replace(Fixture, 1, JU64(3))),
     JArr(Resize(Fixture, 16)), JArr(Resize(Fixture, 19)),
     JObj(ToObject(Fixture)), JU64(5)}

TimeValues == {JU64(FixtureTime), JNull, JStr("now"), JI64(-1)}

StatesValues ==
    {JNull, JU64(1), JStr("none"), JBool(FALSE), JObj(ToObject(Fixture))}
    \cup {JArr(q) : q \in SeqsUpTo(StatePool, MaxStates)}

\* Response bodies: maps with or without the two keys, and top-level
\* values that are not maps.
Bodies ==
    {JObj([k \in {"time", "states"} |-> IF k = "time" THEN t ELSE st]) :
        t \in TimeValues, st \in StatesValues}
    \cup {JObj([k \in {"states"} |-> st]) : st \in {JNull, JArr(<<>>)}}
    \cup {JObj([k \in {"time"} |-> t]) : t \in TimeValues}
    \cup {JArr(<<JU64(FixtureTime), JArr(<<JArr(Fixture)>>)>>),
          JArr(<<>>), JNull, JU64(7), JStr("body"), Malformed}

\* Statuses of a response; None is a request that got no response.
Statuses == {None, Some(200), Some(204), Some(404), Some(500)}

NoRequest == [login |-> None, bbox |-> None, time |-> None,
              icao24_addresses |-> <<>>, serials |-> <<>>]

\* The requests sent: the time not pinned, or pinned to the fixture's.
Requests ==
    {[NoRequest EXCEPT !.time = t] : t \in {None, Some(FixtureTime)}}

\* Longest list of addresses and of serials of a request.
MaxParams == 2

\* Most flights in a response body.
MaxFlights == 2

\* The begin time of the flights requests.
Begin == 1000000

\* The reading of the clock when a track request is sent.
Now == 3000000

\* The logins a request is built with.
Logins == {None, Some(<<"user", "secret">>)}

\* The box of the documentation of with_bbox.
BoxFixture == BoundingBox_new(458389, 478229, 59962, 105226)

\* Requests for states with every combination of parameters.
ParamRequests ==
    {[login |-> l, bbox |-> b, time |-> t, icao24_addresses |-> a,
      serials |-> s] :
        l \in Logins, b \in {None, Some(BoxFixture)},
        t \in {None, Some(FixtureTime)},
        a \in SeqsUpTo({"8990ed", "89906d"}, MaxParams),
        s \in SeqsUpTo({7, 8}, MaxParams)}

\* Pairs <<begin, end>> of a flights request: within every limit, at and
\* beyond the limit of each request type, empty and reversed.
Intervals ==
    {<<Begin, Begin + 3600>>, <<Begin, Begin + 7200>>,
     <<Begin, Begin + 7201>>, <<Begin, Begin>>, <<Begin + 3600, Begin>>,
     <<Begin + 1, Begin>>, <<Begin, Begin + 8 * 24 * 60 * 60>>,
     <<Begin, Begin + 31 * 24 * 60 * 60>>}

RequestTypes == {All, Aircraft("89906d"), Arrival("RPLL"), Departure("RCTP")}

FlightsRequests ==
    {[login |-> l, begin |-> i[1], end |-> i[2], request_type |-> ty] :
        l \in Logins, i \in Intervals, ty \in RequestTypes}

\* Elements of a flights body: two flights and an object that is none.
FlightPool ==
    {Parse(Flight_serialize(FlightFixture)),
     Parse(Flight_serialize([FlightFixture EXCEPT !.callsign = None])),
     JObj([k \in {"icao24"} |-> JStr("89906d")])}

FlightBodies ==
    {JArr(q) : q \in SeqsUpTo(FlightPool, MaxFlights)}
    \cup {Parse(Flight_serialize(FlightFixture)), JNull, Malformed, Unreadable}

\* Times of a track request: live (0), recent, older than 30 days and
\* ahead of the clock.
TrackTimes == {0, Now - 100, Now - 31 * 24 * 60 * 60, Now + 50}

TrackRequests ==
    {[login |-> l, icao24 |-> "8990ed", time |-> t] :
        l \in Logins, t \in TrackTimes}

TrackBodies ==
    {Parse(FlightTrack_serialize(v)) : v \in FlightTrackValues}
    \cup FlightTrackOthers \cup {Unreadable}

------------------------------------------------------------------------------
(* Specification: a call is drawn with its input, then the operation runs  *)
(* and leaves its outcome.                                                 *)

\* The in-memory value of a call that has none.
NoValue == <<>>

\* The url of a call that has built none.
NoUrl == <<>>

\* The build profiles: overflow checks on (debug) or off (release).
Builds == {"debug", "release"}

\* What a call that is no builder chain and reads no clock starts from.
Idle ==
    /\ build \in Builds
    /\ now = 0
    /\ url = NoUrl
    /\ calls = <<>>
    /\ issued = <<>>

\* The serializer output of a call that has none.
NoDoc == <<"none", 0>>

\* A call of decoder name on the wire value val, not yet run.
Call(name, val) ==
    /\ pc = "call"
    /\ op = name
    /\ request = NoRequest
    /\ status = None
    /\ arg = NoValue
    /\ wire = val
    /\ doc = NoDoc
    /\ attempts = <<>>
    /\ log = <<>>
    /\ result = Ok(0)
    /\ Idle

\* A call of send name with request req, answered by status st and body.
CallSend(name, req, st, body) ==
    /\ pc = "call"
    /\ op = name
    /\ request = req
    /\ status = st
    /\ arg = NoValue
    /\ wire = body
    /\ doc = NoDoc
    /\ attempts = <<>>
    /\ log = <<>>
    /\ result = Ok(0)
    /\ Idle

\* A round trip of decoder name on the in-memory value v, not yet encoded.
CallEncode(name, v) ==
    /\ pc = "encode"
    /\ op = name
    /\ request = NoRequest
    /\ status = None
    /\ arg = Some(v)
    /\ wire = JNull
    /\ doc = NoDoc
    /\ attempts = <<>>
    /\ log = <<>>
    /\ result = Ok(0)
    /\ Idle

\* A call of decoder name on val, the wire form a server gives value v.
CallWire(name, v, val) ==
    /\ pc = "call"
    /\ op = name
    /\ request = NoRequest
    /\ status = None
    /\ arg = Some(v)
    /\ wire = val
    /\ doc = NoDoc
    /\ attempts = <<>>
    /\ log = <<>>
    /\ result = Ok(0)
    /\ Idle

\* A call of send name at clock reading clock.
CallAt(name, req, st, body, clock) ==
    /\ pc = "call"
    /\ op = name
    /\ build \in Builds
    /\ now = clock
    /\ request = req
    /\ status = st
    /\ arg = NoValue
    /\ wire = body
    /\ doc = NoDoc
    /\ attempts = <<>>
    /\ log = <<>>
    /\ url = NoUrl
    /\ calls = <<>>
    /\ issued = <<>>
    /\ result = Ok(0)

Init ==
    \/ \E val \in EnumWire : Call("PositionSource", val)
    \/ \E self \in 0..3 : CallEncode("PositionSource", self)
    \/ \E self \in 0..20 : CallEncode("AirCraftCategory", self)
    \/ \E val \in EnumWire : Call("AirCraftCategory", val)
    \/ \E v \in VecInputs : Call("StateVector", JArr(v))
    \/ \E v \in NulledVecInputs : Call("StateVector", JArr(v))
    \/ \E map \in MapInputs : Call("StateVector", JObj(map))
    \/ \E val \in Samples : Call("StateVector", val)
    \/ \E val \in EmptyIcao24Inputs : Call("StateVector", val)
    \/ \E body \in Bodies : Call("States", body)
    \/ \E self \in StatesInputs : CallEncode("States", self)
    \/ \E self \in FlightTrackValues : CallEncode("FlightTrack", self)
    \/ \E self \in FlightValues : CallEncode("Flight", self)
    \/ \E self \in FlightTrackValues,
          A \in SUBSET RenamedFields(FlightTrackFields, FlightTrackWireNames) :
          CallWire("FlightTrack", self,
                   JObj(Renamed(Payload(Parse(FlightTrack_serialize(self))),
                                FlightTrackFields, FlightTrackWireNames, A)))
    \/ \E self \in {FlightFixture,
                     [FlightFixture EXCEPT !.est_arrival_airport = None,
                         !.est_arrival_airport_horiz_distance = None]},
          A \in SUBSET RenamedFields(FlightFields, FlightAliases) :
          CallWire("Flight", self,
                   JObj(Renamed(Payload(Parse(Flight_serialize(self))),
                                FlightFields, FlightAliases, A)))
    \/ \E val \in FlightTrackOthers : Call("FlightTrack", val)
    \/ \E val \in FlightOthers : Call("Flight", val)
    \/ \E a \in WaypointVecInputs : Call("Waypoint", JArr(a))
    \/ \E m \in WaypointMapInputs : Call("Waypoint", JObj(m))
    \/ \E val \in WaypointSamples : Call("Waypoint", val)
    \/ \E req \in Requests, st \in Statuses, body \in Bodies \cup {Unreadable} :
          \/ CallSend("lib::send", req, st, body)
          \/ CallSend("states::send", req, st, body)
    \/ \E req \in ParamRequests :
          \/ CallSend("lib::send", req, Some(StatusOK), FixtureBody)
          \/ CallSend("states::send", req, Some(StatusOK), FixtureBody)
    \/ \E req \in FlightsRequests, st \in Statuses, body \in FlightBodies :
          CallSend("flights::send", req, st, body)
    \/ \E req \in TrackRequests, st \in Statuses, body \in TrackBodies :
          CallAt("tracks::send", req, st, body, Now)

\* The called operation returns (or aborts) with outcome r, having
\* printed the lines l.
Return(r, l) ==
    /\ pc' = "done"
    /\ result' = r
    /\ log' = l
    /\ UNCHANGED <<op, build, now, request, status, arg, wire, doc, calls, issued>>

\* The encoder writes document d, which is read back as the wire value
\* handed to the decoder.
Written(d) ==
    /\ pc' = "call"
    /\ doc' = d
    /\ wire' = Parse(d)
    /\ UNCHANGED <<op, build, now, request, status, arg, attempts, log, url,
                   calls, issued, result>>

SerializePositionSource ==
    /\ pc = "encode" /\ op = "PositionSource"
    /\ Written(PositionSource_serialize(arg[1]))

SerializeAirCraftCategory ==
    /\ pc = "encode" /\ op = "AirCraftCategory"
    /\ Written(AirCraftCategory_serialize(arg[1]))

SerializeStates ==
    /\ pc = "encode" /\ op = "States"
    /\ Written(States_serialize(arg[1]))

\* serde_json::to_string on the States a decode returned.
to_string ==
    /\ pc = "done" /\ op \in {"States", "states::send"}
    /\ result.kind = "ok"
    /\ pc' = "encoded"
    /\ doc' = States_serialize(result.v)
    /\ UNCHANGED <<op, build, now, request, status, arg, wire, attempts, log,
                   url, calls, issued, result>>

DeserializePositionSource ==
    /\ pc = "call" /\ op = "PositionSource"
    /\ Return(PositionSource_deserialize(wire),
              PositionSource_deserialize_log(wire))
    /\ UNCHANGED <<attempts, url>>

DeserializeAirCraftCategory ==
    /\ pc = "call" /\ op = "AirCraftCategory"
    /\ Return(AirCraftCategory_deserialize(wire),
              AirCraftCategory_deserialize_log(wire))
    /\ UNCHANGED <<attempts, url>>

DeserializeStateVector ==
    /\ pc = "call" /\ op = "StateVector"
    /\ Return(StateVector_deserialize(wire), StateVector_deserialize_log(wire))
    /\ UNCHANGED <<attempts, url>>

DeserializeStates ==
    /\ pc = "call" /\ op = "States"
    /\ Return(States_deserialize(wire), States_deserialize_log(wire))
    /\ UNCHANGED <<attempts, url>>

DeserializeWaypoint ==
    /\ pc = "call" /\ op = "Waypoint"
    /\ Return(Waypoint_deserialize(wire), <<>>)
    /\ UNCHANGED <<attempts, url>>

SerializeFlightTrack ==
    /\ pc = "encode" /\ op = "FlightTrack"
    /\ Written(FlightTrack_serialize(arg[1]))

SerializeFlight ==
    /\ pc = "encode" /\ op = "Flight"
    /\ Written(Flight_serialize(arg[1]))

DeserializeFlightTrack ==
    /\ pc = "call" /\ op = "FlightTrack"
    /\ Return(FlightTrack_deserialize(wire), <<>>)
    /\ UNCHANGED <<attempts, url>>

DeserializeFlight ==
    /\ pc = "call" /\ op = "Flight"
    /\ Return(Flight_deserialize(wire), <<>>)
    /\ UNCHANGED <<attempts, url>>

LibSend ==
    /\ pc = "call" /\ op = "lib::send"
    /\ \E out \in {Lib_StateRequest_send(request, status, wire)} :
          /\ Return(out.result, <<>>)
          /\ attempts' = out.attempts
          /\ url' = StateRequest_url(request)

StatesSend ==
    /\ pc = "call" /\ op = "states::send"
    /\ \E out \in {States_StateRequest_send(request, status, wire)} :
          /\ Return(out.result,
                    States_StateRequest_send_log(request, status, wire))
          /\ attempts' = out.attempts
          /\ url' = StateRequest_url(request)

FlightsSend ==
    /\ pc = "call" /\ op = "flights::send"
    /\ \E out \in {FlightsRequest_send(request, status, wire, build)} :
          /\ Return(out.result, out.log)
          /\ attempts' = out.attempts
          /\ url' = out.url

TracksSend ==
    /\ pc = "call" /\ op = "tracks::send"
    /\ \E out \in {TrackRequest_send(request, status, wire, build, now)} :
          /\ Return(out.result, out.log)
          /\ attempts' = out.attempts
          /\ url' = out.url

Next ==
    \/ SerializePositionSource
    \/ SerializeAirCraftCategory
    \/ SerializeStates
    \/ to_string
    \/ DeserializeWaypoint
    \/ SerializeFlightTrack
    \/ SerializeFlight
    \/ DeserializeFlightTrack
    \/ DeserializeFlight
    \/ DeserializePositionSource
    \/ DeserializeAirCraftCategory
    \/ DeserializeStateVector
    \/ DeserializeStates
    \/ LibSend
    \/ StatesSend
    \/ FlightsSend
    \/ TracksSend

Spec == Init /\ [][Next]_vars

------------------------------------------------------------------------------
(* Specification of the builders: a builder is constructed, then setters,  *)
(* finish and consume are called on it.  request is the request the        *)
(* builder holds, arg the arguments it was constructed with, calls the     *)
(* calls made so far and issued the requests finish and consume returned.  *)

\* Most calls made on one builder.
MaxCalls == 3

\* Arguments of at_time and of in_interval.
BuilderTimes == {Begin, Begin + 7200, Begin + 7201}

\* Arguments of with_bbox.
BuilderBoxes == {BoxFixture, BoundingBox_new(0, 10000, 0, 10000)}

Constructed(name, arguments, req) ==
    /\ pc = "build"
    /\ op = name
    /\ build \in Builds
    /\ now = 0
    /\ request = req
    /\ status = None
    /\ arg = Some(arguments)
    /\ wire = JNull
    /\ doc = NoDoc
    /\ attempts = <<>>
    /\ log = <<>>
    /\ url = NoUrl
    /\ calls = <<>>
    /\ issued = <<>>
    /\ result = Ok(0)

InitBuilder ==
    \/ \E login \in Logins :
          Constructed("StateRequestBuilder", <<login>>,
                      StateRequestBuilder_new(login))
    \/ \E login \in Logins, i \in {<<Begin, Begin + 3600>>, <<Begin + 1, Begin>>} :
          Constructed("FlightsRequestBuilder", <<login, i[1], i[2]>>,
                      FlightsRequestBuilder_new(login, i[1], i[2]))

\* A call name(a) on the builder that leaves it holding req, with outcome
\* r; a call that aborts ends the program.
Called(name, a, req, r) ==
    /\ pc = "build"
    /\ Len(calls) < MaxCalls
    /\ calls' = Append(calls, <<name, a>>)
    /\ request' = req
    /\ result' = r
    /\ pc' = IF r.kind = "panic" THEN "done" ELSE "build"
    /\ UNCHANGED <<op, build, now, status, arg, wire, doc, attempts, log, url>>

with_bbox ==
    /\ op = "StateRequestBuilder"
    /\ \E bbox \in BuilderBoxes :
          Called("with_bbox", bbox,
                 StateRequestBuilder_with_bbox(request, bbox), Ok(0))
    /\ UNCHANGED issued

at_time ==
    /\ op = "StateRequestBuilder"
    /\ \E timestamp \in BuilderTimes :
          Called("at_time", timestamp,
                 StateRequestBuilder_at_time(request, timestamp), Ok(0))
    /\ UNCHANGED issued

with_icao24 ==
    /\ op = "StateRequestBuilder"
    /\ \E address \in {"8990ed", "89906d"} :
          Called("with_icao24", address,
                 StateRequestBuilder_with_icao24(request, address), Ok(0))
    /\ UNCHANGED issued

with_serial ==
    /\ op = "StateRequestBuilder"
    /\ \E serial \in {7, 8} :
          Called("with_serial", serial,
                 StateRequestBuilder_with_serial(request, serial), Ok(0))
    /\ UNCHANGED issued

StateRequestBuilder_Finish ==
    /\ op = "StateRequestBuilder"
    /\ Called("finish", 0, request, Ok(0))
    /\ issued' = Append(issued, StateRequestBuilder_finish(request))

\* consume takes the builder by value: no call can follow it.
StateRequestBuilder_Consume ==
    /\ op = "StateRequestBuilder"
    /\ pc = "build"
    /\ Len(calls) < MaxCalls
    /\ calls' = Append(calls, <<"consume", 0>>)
    /\ issued' = Append(issued, StateRequestBuilder_consume(request))
    /\ pc' = "consumed"
    /\ UNCHANGED <<op, build, now, request, status, arg, wire, doc, attempts,
                   log, url, result>>

in_interval ==
    /\ op = "FlightsRequestBuilder"
    /\ \E begin \in BuilderTimes, end \in BuilderTimes :
          \E out \in {FlightsRequestBuilder_in_interval(request, begin, end, build)} :
              Called("in_interval", <<begin, end>>,
                     IF out.kind = "ok" THEN out.v ELSE request,
                     IF out.kind = "ok" THEN Ok(0) ELSE out)
    /\ UNCHANGED issued

by_aircraft ==
    /\ op = "FlightsRequestBuilder"
    /\ \E address \in {"8990ed"} :
          Called("by_aircraft", address,
                 FlightsRequestBuilder_by_aircraft(request, address), Ok(0))
    /\ UNCHANGED issued

by_arrival ==
    /\ op = "FlightsRequestBuilder"
    /\ \E airport_icao \in {"RPLL"} :
          Called("by_arrival", airport_icao,
                 FlightsRequestBuilder_by_arrival(request, airport_icao), Ok(0))
    /\ UNCHANGED issued

by_departure ==
    /\ op = "FlightsRequestBuilder"
    /\ \E airport_icao \in {"RCTP"} :
          Called("by_departure", airport_icao,
                 FlightsRequestBuilder_by_departure(request, airport_icao), Ok(0))
    /\ UNCHANGED issued

FlightsRequestBuilder_Finish ==
    /\ op = "FlightsRequestBuilder"
    /\ Called("finish", 0, request, Ok(0))
    /\ issued' = Append(issued, FlightsRequestBuilder_finish(request))

\* consume takes the builder by value: no call can follow it.
FlightsRequestBuilder_Consume ==
    /\ op = "FlightsRequestBuilder"
    /\ pc = "build"
    /\ Len(calls) < MaxCalls
    /\ calls' = Append(calls, <<"consume", 0>>)
    /\ issued' = Append(issued, FlightsRequestBuilder_consume(request))
    /\ pc' = "consumed"
    /\ UNCHANGED <<op, build, now, request, status, arg, wire, doc, attempts,
                   log, url, result>>

NextBuilder ==
    \/ with_bbox
    \/ at_time
    \/ with_icao24
    \/ with_serial
    \/ StateRequestBuilder_Finish
    \/ StateRequestBuilder_Consume
    \/ in_interval
    \/ by_aircraft
    \/ by_arrival
    \/ by_departure
    \/ FlightsRequestBuilder_Finish
    \/ FlightsRequestBuilder_Consume

SpecBuilder == InitBuilder /\ [][NextBuilder]_vars

------------------------------------------------------------------------------
(* Properties                                                              *)

\* A finished decode of a positional StateVector array.
DecodedArray == pc = "done" /\ op = "StateVector" /\ Tag(wire) = "arr"

\* A finished decode of a States body that is a map with a u64 `time`
\* and a `states` key, by States::deserialize or through send of states.rs.
DecodedStatesMap ==
    /\ pc = "done"
    /\ \/ op = "States"
       \/ op = "states::send" /\ status = Some(StatusOK)
    /\ Tag(wire) = "obj"
    /\ {"time", "states"} \subseteq DOMAIN Payload(wire)
    /\ Tag(Payload(wire)["time"]) = "u64"

\* C1: a 17-element array decodes with category none, an 18-element array
\* with the category decoded from element 17 (none when it is null), and
\* fields 0..16 are in both cases the conversions of elements 0..16.
C1_CategoryByLength ==
    (DecodedArray /\ result.kind = "ok" /\ Len(Payload(wire)) \in {17, 18}) =>
        LET value == Payload(wire)
        IN  /\ Len(value) = 17 => result.v.category = None
            /\ Len(value) = 18 =>
                 result.v.category =
                    IF Tag(value[18]) = "null"
                    THEN None
                    ELSE Some(AirCraftCategory_deserialize(value[18]).v)
            /\ \A i \in 1..17 :
                 result.v[StateVectorFields[i]] =
                    from_value(StateVectorTypes[i], value[i]).v

\* An 18-element array decoded to a record that carries a category.
C1_Witness ==
    /\ DecodedArray /\ result.kind = "ok"
    /\ Len(Payload(wire)) = 18
    /\ result.v.category = Some(2)

\* C2: an array whose length is neither 17 nor 18 is a decode error
\* returned to the caller, and no record is produced.
C2_OtherLengthIsError ==
    (DecodedArray /\ Len(Payload(wire)) \notin {17, 18}) =>
        result.kind = "err"

\* C3: `states` null decodes to an empty sequence with the time of the
\* body; a `states` that is neither null nor an array is a decode error.
C3_NullStatesIsEmpty ==
    DecodedStatesMap =>
        LET time == Payload(wire)["time"]
            states == Payload(wire)["states"]
        IN  /\ Tag(states) = "null" =>
                 /\ result.kind = "ok"
                 /\ result.v.time = Payload(time)
                 /\ result.v.states = <<>>
            /\ Tag(states) \notin {"null", "arr"} => result.kind = "err"

\* The body {"time": 1458564121, "states": null} decoded to no states.
C3_Witness ==
    /\ DecodedStatesMap
    /\ Tag(Payload(wire)["states"]) = "null"
    /\ result.kind = "ok"
    /\ result.v.time = FixtureTime
    /\ result.v.states = <<>>

\* A finished send of lib.rs that got status OK and read the body.
LibDecoded ==
    /\ pc = "done" /\ op = "lib::send"
    /\ status = Some(StatusOK)
    /\ Tag(wire) # "unreadable"

\* C4: with no time pinned the long-form parse is attempted first and its
\* result returned if it succeeds; if and only if it fails the short-form
\* parse of the same bytes is attempted and its result returned if it
\* succeeds; the decode fails only when both fail.
C4_LongThenShort ==
    (LibDecoded /\ request.time = None) =>
        LET long == ParseLong(wire)
            short == ParseShort(wire)
        IN  /\ attempts[1] = "long"
            /\ long.kind = "ok" =>
                 /\ attempts = <<"long">>
                 /\ result = Ok(OpenSkyStates_from_inner(long.v))
            /\ long.kind # "ok" =>
                 /\ attempts = <<"long", "short">>
                 /\ short.kind = "ok" =>
                      result = Ok(OpenSkyStates_from_short_inner(short.v))
            /\ result.kind # "ok" <=> (long.kind # "ok" /\ short.kind # "ok")

\* Bytes that fail the long-form parse and pass the short-form parse gave
\* the short-form records.
C4_Witness ==
    /\ LibDecoded /\ request.time = None
    /\ ParseLong(wire).kind # "ok"
    /\ attempts = <<"long", "short">>
    /\ result.kind = "ok"
    /\ Len(result.v.states) = 2
    /\ result.v.states[1].undocumented = None

\* C5: with a time pinned the short-form parse is the only parse attempted,
\* the outcome is that of the short-form parse alone, and no decoded state
\* vector carries the trailing undocumented value.
C5_PinnedTimeShortOnly ==
    (LibDecoded /\ request.time # None) =>
        LET short == ParseShort(wire)
        IN  /\ attempts = <<"short">>
            /\ short.kind = "ok" =>
                 /\ result = Ok(OpenSkyStates_from_short_inner(short.v))
                 /\ \A i \in 1..Len(result.v.states) :
                       result.v.states[i].undocumented = None
            /\ short.kind # "ok" =>
                 /\ result.kind = "err"
                 /\ result.v.variant = "InvalidJson"
                 /\ result.v.source.msg = short.v

\* A pinned time and a body of 18-element vectors, which the long-form
\* parse accepts: only the short-form parse ran, and it failed.
C5_Witness ==
    /\ LibDecoded /\ request.time # None
    /\ ParseLong(wire).kind = "ok"
    /\ Len(ParseLong(wire).v.states) > 0
    /\ attempts = <<"short">>
    /\ result.kind = "err"

\* The parses whose failure an error reports.
ReportedFailures(e) ==
    IF e.variant = "InvalidJson" THEN {e.source.of} ELSE {}

\* C6: when both the long-form and the short-form parse fail, the error
\* returned reports both failures.
C6_BothFailuresReported ==
    (/\ LibDecoded /\ request.time = None
     /\ ParseLong(wire).kind # "ok" /\ ParseShort(wire).kind # "ok") =>
        /\ result.kind = "err"
        /\ {"InnerOpenSkyStates", "ShortInnerOpenSkyStates"}
              \subseteq ReportedFailures(result.v)

\* Some element of an array of 17 or 18 elements, or some value of the
\* object, fails the conversion to its field's type, or a key of the object
\* is missing.
HasBadField(val) ==
    \/ /\ Tag(val) = "arr"
       /\ Len(Payload(val)) \in {17, 18}
       /\ \E i \in 1..Len(Payload(val)) :
             from_value(StateVectorTypes[i], Payload(val)[i]).kind # "ok"
    \/ /\ Tag(val) = "obj"
       /\ \E i \in 1..18 :
             \/ StateVectorFields[i] \notin DOMAIN Payload(val)
             \/ from_value(StateVectorTypes[i],
                           Payload(val)[StateVectorFields[i]]).kind # "ok"

\* C7: a StateVector wire value with an element that fails its type
\* conversion, or with a required key missing, decodes to a typed error
\* returned to the caller: no panic and no record.
C7_BadFieldIsTypedError ==
    (pc = "done" /\ op = "StateVector" /\ HasBadField(wire)) =>
        result.kind = "err"

\* C8: an integer ordinal n decodes to the variant with ordinal n when n is
\* in range (0..3, 0..20) and to the default for every other n, n >= 256
\* included.
C8_OrdinalDecode ==
    (pc = "done" /\ Tag(wire) = "u64") =>
        /\ op = "PositionSource" =>
             result = Ok(IF Payload(wire) \in 0..3 THEN Payload(wire) ELSE ADSB)
        /\ op = "AirCraftCategory" =>
             result = Ok(IF Payload(wire) \in 0..20 THEN Payload(wire)
                         ELSE NoInformation)

\* C9: a string decodes by case-sensitive exact match against the variant
\* names: a canonical name to its own variant, any other string to the
\* default.
C9_NameDecode ==
    (pc = "done" /\ Tag(wire) = "str") =>
        /\ op = "PositionSource" =>
             result = Ok(IF IndexOf(PositionSourceNames, Payload(wire)) >= 0
                         THEN IndexOf(PositionSourceNames, Payload(wire))
                         ELSE ADSB)
        /\ op = "AirCraftCategory" =>
             result = Ok(IF IndexOf(AirCraftCategoryNames, Payload(wire)) >= 0
                         THEN IndexOf(AirCraftCategoryNames, Payload(wire))
                         ELSE NoInformation)

\* The differently-cased name "mlat" decoded to the default ADSB.
C9_Witness ==
    /\ pc = "done" /\ op = "PositionSource"
    /\ wire = JStr("mlat")
    /\ result = Ok(ADSB)

\* C10: an enum decode never fails and never aborts for a numeric or
\* string wire value; negative and non-integer numbers included.
C10_EnumDecodeNeverFails ==
    (/\ pc = "done" /\ op \in {"PositionSource", "AirCraftCategory"}
     /\ (IsNumber(wire) \/ Tag(wire) = "str")) =>
        result.kind = "ok"

\* The enum decode took the fallback path: an ordinal outside the range
\* of the enum, or a string that is no variant name, became the default.
TookFallback ==
    /\ pc = "done" /\ result.kind = "ok"
    /\ \/ /\ op = "PositionSource"
          /\ \/ Tag(wire) = "u64" /\ AsU8(Payload(wire)) \notin 0..3
             \/ Tag(wire) = "str"
                /\ IndexOf(PositionSourceNames, Payload(wire)) < 0
       \/ /\ op = "AirCraftCategory"
          /\ \/ Tag(wire) = "u64" /\ AsU8(Payload(wire)) \notin 0..20
             \/ Tag(wire) = "str"
                /\ IndexOf(AirCraftCategoryNames, Payload(wire)) < 0

\* C11: every enum decode that takes the fallback path prints a warning
\* in that same decode.
C11_FallbackWarns == TookFallback => log # <<>>

\* An enum value was encoded and the document decoded again.
EnumRoundTrip ==
    /\ pc = "done" /\ arg # NoValue
    /\ op \in {"PositionSource", "AirCraftCategory"}

\* The canonical name of the encoded variant.
NameOfArg ==
    IF op = "PositionSource"
    THEN PositionSourceNames[arg[1] + 1]
    ELSE AirCraftCategoryNames[arg[1] + 1]

\* The decode of the ordinal of the encoded variant.
DecodeOfOrdinal ==
    IF op = "PositionSource"
    THEN PositionSource_deserialize(JU64(arg[1]))
    ELSE AirCraftCategory_deserialize(JU64(arg[1]))

\* C12: an enum value is written as its canonical name, never as its
\* ordinal; decoding what was written gives the value back; and decoding
\* the value's ordinal gives the same variant as decoding its name.
C12_EnumRoundTrip ==
    EnumRoundTrip =>
        /\ doc = JStr(NameOfArg)
        /\ result = Ok(arg[1])
        /\ log = <<>>
        /\ DecodeOfOrdinal = result

C12_Witness ==
    /\ EnumRoundTrip
    /\ op = "AirCraftCategory" /\ arg = Some(20)
    /\ doc = JStr("LineObstacle") /\ result = Ok(20)

\* A decode of the positional form of a record gave the record.
ArrayFormDecoded ==
    /\ pc = "done" /\ arg = NoValue /\ result.kind = "ok"
    /\ Tag(wire) = "arr"
    /\ \/ op = "StateVector" /\ Len(Payload(wire)) \in {17, 18}
       \/ op = "Waypoint" /\ Len(Payload(wire)) = 6

\* The outcome of decoding the object form that carries the elements of
\* the decoded array under the field names; the object of a 17-element
\* state vector has category null.
ObjectFormDecode ==
    LET arr == Payload(wire)
    IN  IF op = "StateVector"
        THEN StateVector_deserialize(
                 JObj(ToObject(IF Len(arr) = 17 THEN Append(arr, JNull) ELSE arr)))
        ELSE Waypoint_deserialize(JObj(WaypointToObject(arr)))

\* C13: decoding the array form of a StateVector or Waypoint and decoding
\* the object form with the same values under the field names give the
\* same record.
C13_DualShape == ArrayFormDecoded => ObjectFormDecode = result

C13_Witness ==
    /\ ArrayFormDecoded /\ op = "Waypoint"
    /\ wire = JArr(Nulled(WaypointFixture, {3, 5}))
    /\ result.v.latitude = Some(501964) /\ result.v.longitude = None
    /\ ObjectFormDecode = result

\* A States value was encoded and the document decoded again.
StatesRoundTrip == pc = "done" /\ op = "States" /\ arg # NoValue

\* C14: decoding the canonical encoding of a States value, whose state
\* vectors are written in object form, gives a value equal to it.
C14_StatesRoundTrip ==
    StatesRoundTrip =>
        /\ Tag(wire) = "obj"
        /\ \A i \in 1..Len(Payload(wire)["states"][2]) :
              Tag(Payload(wire)["states"][2][i]) = "obj"
        /\ result = Ok(arg[1])

C14_Witness ==
    /\ StatesRoundTrip
    /\ Len(arg[1].states) = 2
    /\ arg[1].states[1].longitude # None
    /\ arg[1].states[2].longitude = None
    /\ arg[1].states[2].position_source = FLARM
    /\ result = Ok(arg[1])

\* A FlightTrack or Flight value was decoded from its canonical encoding
\* or from the wire form that names some fields in camelCase.
TrackOrFlightDecoded ==
    pc = "done" /\ op \in {"FlightTrack", "Flight"} /\ arg # NoValue

\* The keys of the members of a written map, in the order written.
KeysWritten(d) == [i \in 1..Len(Payload(d)) |-> Payload(d)[i][1]]

\* C15: decoding the canonical encoding of a FlightTrack (with its path)
\* or of a Flight gives the value back, the encoding uses the snake_case
\* field names, and a field under its camelCase wire name decodes as
\* under its snake_case name.
C15_TrackFlightRoundTrip ==
    TrackOrFlightDecoded =>
        /\ result = Ok(arg[1])
        /\ Tag(doc) = "map" =>
              KeysWritten(doc) =
                 IF op = "FlightTrack" THEN FlightTrackFields ELSE FlightFields

C15_Witness ==
    /\ TrackOrFlightDecoded /\ op = "FlightTrack"
    /\ {"startTime", "end_time"} \subseteq DOMAIN Payload(wire)
    /\ Len(arg[1].path) = 2
    /\ arg[1].path[2].latitude = None
    /\ result = Ok(arg[1])

\* The fixture body was decoded, by States::deserialize or through send
\* of states.rs, and the outcome was handed to the encoder.
FixtureDecoded ==
    /\ op \in {"States", "states::send"} /\ arg = NoValue
    /\ op = "states::send" => status = Some(StatusOK)
    /\ Tag(wire) = "obj" /\ wire = FixtureBody

\* C16: the fixture body decodes to one StateVector for "3c6444" with
\* position_source ADSB and no category, and its encoding is the object
\* with the 18 keys in declaration order, position_source "ADSB" and
\* null for the absent optionals.
C16_FixtureEndToEnd ==
    /\ (FixtureDecoded /\ pc \in {"done", "encoded"}) =>
          /\ result.kind = "ok"
          /\ result.v.time = FixtureTime
          /\ Len(result.v.states) = 1
          /\ result.v.states[1].icao24 = "3c6444"
          /\ result.v.states[1].position_source = ADSB
          /\ result.v.states[1].category = None
          /\ result.v.states[1].sensors = None
    /\ (FixtureDecoded /\ pc = "encoded") =>
          /\ doc = FixtureJson
          /\ KeysWritten(Payload(doc)[2][2][2][1]) = StateVectorFields

C16_Witness ==
    /\ FixtureDecoded /\ pc = "encoded" /\ op = "states::send"
    /\ request.time = Some(FixtureTime)
    /\ doc = FixtureJson

\* The optional fields of Waypoint.
WaypointOptionalFields == {"latitude", "longitude", "baro_altitude", "true_track"}

\* The wire value the finished Waypoint decode was given for field name:
\* the element at the position of the field or the value under its key.
WaypointWireOf(name) ==
    IF Tag(wire) = "arr"
    THEN Payload(wire)[IndexOf(WaypointFields, name) + 1]
    ELSE Payload(wire)[name]

\* A finished decode of a waypoint that has all six elements or keys,
\* one of the optional ones being neither null nor a number.
WaypointWrongType ==
    /\ pc = "done" /\ op = "Waypoint" /\ arg = NoValue
    /\ \/ Tag(wire) = "arr" /\ Len(Payload(wire)) >= 6
       \/ Tag(wire) = "obj"
          /\ {WaypointFields[i] : i \in 1..6} \subseteq DOMAIN Payload(wire)
    /\ \E name \in WaypointOptionalFields :
          Tag(WaypointWireOf(name)) \notin {"null", "u64", "i64", "f64"}

\* C17: an optional Waypoint element that is neither null nor a number
\* makes the decode fail with an error; it never decodes as absent.
C17_NoSilentCoercion == WaypointWrongType => result.kind = "err"

\* The index table of the optional fields of StateVector.
OptionalIndexTable ==
    {<<1, "callsign">>, <<3, "time_position">>, <<5, "longitude">>,
     <<6, "latitude">>, <<7, "baro_altitude">>, <<9, "velocity">>,
     <<10, "true_track">>, <<11, "vertical_rate">>, <<12, "sensors">>,
     <<13, "geo_altitude">>, <<14, "squawk">>, <<17, "category">>}

\* The index table of the fields that are always present.
RequiredIndexTable ==
    {<<0, "icao24">>, <<2, "origin_country">>, <<4, "last_contact">>,
     <<8, "on_ground">>, <<15, "spi">>, <<16, "position_source">>}

\* A finished decode of an 18-element array that differs from the array
\* with every field present only by null at optional positions.
NulledDecoded ==
    /\ DecodedArray /\ arg = NoValue
    /\ Len(Payload(wire)) = 18
    /\ \A i \in 1..18 :
          \/ Payload(wire)[i] = FullVec[i]
          \/ Tag(Payload(wire)[i]) = "null"
             /\ \E e \in OptionalIndexTable : e[1] = i - 1

\* C18: null at any set of optional positions of a StateVector array
\* decodes each of these fields to none and every other field to the
\* value it has without the nulls, position N always giving the same
\* field.
C18_PerPositionOptional ==
    NulledDecoded =>
        /\ result.kind = "ok"
        /\ \A e \in OptionalIndexTable :
              result.v[e[2]] =
                 IF Tag(Payload(wire)[e[1] + 1]) = "null"
                 THEN None
                 ELSE FullStateVector[e[2]]
        /\ \A e \in RequiredIndexTable : result.v[e[2]] = FullStateVector[e[2]]

C18_Witness ==
    /\ NulledDecoded
    /\ {i \in 1..18 : Tag(Payload(wire)[i]) = "null"} = {6, 12, 15}
    /\ result.kind = "ok"
    /\ result.v.longitude = None /\ result.v.latitude = Some(501964)
    /\ result.v.vertical_rate = None /\ result.v.squawk = None
    /\ result.v.category = Some(6)

\* send of states.rs finished on a 200 response whose body is a map with
\* `time` null and a `states` that decodes, for a request with a time.
NullTimeKnownRequest ==
    /\ pc = "done" /\ op = "states::send" /\ status = Some(StatusOK)
    /\ request.time # None
    /\ Tag(wire) = "obj"
    /\ {"time", "states"} \subseteq DOMAIN Payload(wire)
    /\ Tag(Payload(wire)["time"]) = "null"
    /\ StatesOf(Payload(wire)["states"]).kind = "ok"

\* C19: a body whose `time` is null decodes, when the requested time is
\* known, to the States with the requested time and the states of the
\* body.
C19_NullTimeTakesRequested ==
    NullTimeKnownRequest =>
        /\ result.kind = "ok"
        /\ result.v.time = request.time[1]
        /\ result.v.states = StatesOf(Payload(wire)["states"]).v

\* A finished decode, by States::deserialize or through send of
\* states.rs, of a body that is JSON but not a map, or a map without
\* `time` or without `states`.
NotAStatesMap ==
    /\ pc = "done" /\ arg = NoValue
    /\ \/ op = "States"
       \/ op = "states::send" /\ status = Some(StatusOK)
    /\ Tag(wire) \notin {"malformed", "unreadable"}
    /\ \/ Tag(wire) # "obj"
       \/ Tag(wire) = "obj" /\ ~({"time", "states"} \subseteq DOMAIN Payload(wire))

\* C20: a body that is not a map, or lacks `time` or `states`, is a
\* decode error returned to the caller: no panic and no States value.
C20_NotAMapIsError == NotAStatesMap => result.kind = "err"

\* A states or tracks request that was sent and answered.
Answered ==
    /\ pc = "done"
    /\ op \in {"states::send", "tracks::send"}
    /\ url # NoUrl
    /\ status # None

\* C21: on the states and tracks requests a status that is not a success
\* gives Error::Http with that status and no decode of the body; a body is
\* decoded only after a success status, and a body that does not decode
\* gives Error::InvalidJson.
C21_HttpBeforeDecode ==
    Answered =>
        /\ status[1] \notin 200..299 => result = Http(status[1])
        /\ attempts # <<>> => status[1] \in 200..299
        /\ result.kind = "err" /\ result.v.variant = "Http" => attempts = <<>>
        /\ attempts # <<>> /\ result.kind # "ok" =>
              result.kind = "err" /\ result.v.variant = "InvalidJson"

\* A request of any endpoint that was sent and answered.
AnsweredAny == pc = "done" /\ url # NoUrl /\ status # None

\* C22: status 404 on a flights request is an empty flight sequence,
\* returned without decoding the body; every other non-success status of a
\* flights request is Error::Http with that status, and 404 on a states or
\* tracks request is Error::Http.
C22_NotFoundOnlyFlights ==
    AnsweredAny =>
        /\ op = "flights::send" /\ status = Some(404) =>
              result = Ok(<<>>) /\ attempts = <<>>
        /\ op = "flights::send" /\ status[1] \notin (200..299) \cup {404} =>
              result = Http(status[1])
        /\ op \in {"states::send", "tracks::send"} /\ status = Some(404) =>
              result = Http(404)

\* A flights request answered 404 with a body that holds a flight, and
\* a states or tracks request answered 404, have returned.
C22_Witness ==
    /\ AnsweredAny
    /\ status = Some(404)
    /\ \/ /\ op = "flights::send"
          /\ Tag(wire) = "arr"
          /\ Len(Payload(wire)) = 1
          /\ VecFlight_deserialize(wire).kind = "ok"
          /\ result = Ok(<<>>)
       \/ /\ op = "tracks::send"
          /\ FlightTrack_deserialize(wire).kind = "ok"
          /\ result = Http(404)

\* The state arrays of a body, in wire order: the value of `states` of a
\* map, the second element of a sequence.
WireStates ==
    IF Tag(wire) = "obj"
    THEN Payload(Payload(wire)["states"])
    ELSE Payload(Payload(wire)[2])

\* A collection decode of states.rs that returned the records of a wire
\* array.
DecodedCollection ==
    /\ pc = "done"
    /\ op \in {"States", "states::send"}
    /\ result.kind = "ok"
    /\ Tag(Payload(wire)["states"]) = "arr"

\* A send of lib.rs that returned the records of a wire array.
ConvertedCollection == pc = "done" /\ op = "lib::send" /\ result.kind = "ok"

\* The record the chain of lib.rs makes of one wire array: the tuple
\* parse of the attempt that succeeded, then its conversion.
Converted(val) ==
    IF attempts[Len(attempts)] = "long"
    THEN StateVector_from_inner(
             TupleStruct_deserialize(InnerStateVectorTypes, val).v)
    ELSE StateVector_from_short_inner(
             TupleStruct_deserialize(ShortInnerStateVectorTypes, val).v)

\* C23: the decoded states sequence has one record per wire array, in
\* wire order, the i-th being the decode of the i-th array, equal entries
\* included; so do the long and short conversions of lib.rs.
C23_OrderAndMultiplicity ==
    /\ DecodedCollection =>
          /\ Len(result.v.states) = Len(WireStates)
          /\ \A i \in 1..Len(WireStates) :
                result.v.states[i] = StateVector_deserialize(WireStates[i]).v
    /\ ConvertedCollection =>
          /\ Len(result.v.states) = Len(WireStates)
          /\ \A i \in 1..Len(WireStates) :
                result.v.states[i] = Converted(WireStates[i])

\* Two wire arrays of the same icao24 that differ elsewhere were decoded
\* to two records.
C23_Witness ==
    /\ DecodedCollection
    /\ Len(WireStates) = 2
    /\ Len(result.v.states) = 2
    /\ result.v.states[1].icao24 = result.v.states[2].icao24
    /\ result.v.states[1] # result.v.states[2]

\* C24: every StateVector a decode returns, from the array or the object
\* form, has a non-empty icao24: a wire record whose icao24 is the empty
\* string gives no StateVector.
C24_Icao24NonEmpty ==
    pc = "done" /\ op = "StateVector" /\ result.kind = "ok" =>
        result.v.icao24 # ""

\* C25: a Waypoint array of 6 elements is mapped by index to time,
\* latitude, longitude, baro_altitude, true_track and on_ground, and an
\* array of any other length is a decode error returned to the caller:
\* no panic and no record of its first 6 elements.
C25_WaypointLength ==
    pc = "done" /\ op = "Waypoint" /\ Tag(wire) = "arr" =>
        /\ Len(Payload(wire)) = 6 /\ result.kind = "ok" =>
              \A i \in 1..6 :
                  result.v[WaypointFields[i]] =
                      WaypointField(WaypointFields[i], Payload(wire)[i]).v
        /\ Len(Payload(wire)) # 6 => result.kind = "err"

\* The step of a call of name on the builder.
CallOf(name) ==
    /\ Len(calls') = Len(calls) + 1
    /\ calls'[Len(calls')][1] = name

\* What in_interval(begin, end) is to do to the builder.
InIntervalContract(begin, end) ==
    /\ end > begin /\ end - begin <= 7200 =>
          /\ result' = Ok(0)
          /\ request' = [request EXCEPT !.begin = begin, !.end = end]
    /\ end > begin /\ end - begin > 7200 =>
          /\ result' = Panic("Interval must not span greater than 2 hours")
          /\ request' = request
    /\ end <= begin =>
          /\ result' = Panic("End time must be greater than begin time")
          /\ request' = request
    /\ request'.request_type = request.request_type
    /\ request'.login = request.login

\* C26: in_interval(begin, end) sets the interval exactly when end > begin
\* and end - begin <= 7200; a longer interval is rejected with "Interval
\* must not span greater than 2 hours", every end <= begin with "End time
\* must be greater than begin time"; the request type and the login are
\* never changed.
C26_InInterval ==
    [][CallOf("in_interval") =>
          InIntervalContract(calls'[Len(calls')][2][1],
                             calls'[Len(calls')][2][2])]_vars

\* The arguments of the calls of name made on the builder, in call order.
ArgsOf(name) ==
    LET made == SelectSeq(calls, LAMBDA c : c[1] = name)
    IN  [i \in 1..Len(made) |-> made[i][2]]

\* The argument of the last call of name, None when there was none.
LastOf(name) ==
    IF Len(ArgsOf(name)) = 0
    THEN None
    ELSE Some(ArgsOf(name)[Len(ArgsOf(name))])

\* C27: the request a StateRequestBuilder holds has the bbox of the last
\* with_bbox (none if never called), the time of the last at_time, the
\* addresses of the with_icao24 calls and the serials of the with_serial
\* calls in call order, and the login it was constructed with; so a
\* setter changes no field but its own.
C27_StateBuilderFields ==
    op = "StateRequestBuilder" =>
        /\ request.bbox = LastOf("with_bbox")
        /\ request.time = LastOf("at_time")
        /\ request.icao24_addresses = ArgsOf("with_icao24")
        /\ request.serials = ArgsOf("with_serial")
        /\ request.login = arg[1][1]

\* with_bbox was called twice with different boxes and with_icao24 once.
C27_Witness ==
    /\ op = "StateRequestBuilder"
    /\ Len(ArgsOf("with_bbox")) = 2
    /\ ArgsOf("with_bbox")[1] # ArgsOf("with_bbox")[2]
    /\ request.bbox = Some(ArgsOf("with_bbox")[2])
    /\ Len(request.icao24_addresses) = 1

\* C28: finish of FlightsRequestBuilder returns a request equal to what
\* the builder holds and leaves the builder as it was, usable again;
\* consume returns the same request; no later call alters a request
\* already returned.
C28_FinishClones ==
    [][op = "FlightsRequestBuilder" =>
          /\ CallOf("finish") =>
                /\ issued' = Append(issued, request)
                /\ request' = request
                /\ pc' = "build"
          /\ CallOf("consume") => issued' = Append(issued, request)
          /\ \A i \in 1..Len(issued) : issued'[i] = issued[i]]_vars

\* finish returned a request, the builder was changed by setters
\* afterwards, and the returned request still is what finish returned.
C28_Witness ==
    /\ op = "FlightsRequestBuilder"
    /\ Len(calls) = 3
    /\ calls[1][1] = "by_aircraft"
    /\ calls[2][1] = "finish"
    /\ calls[3][1] \in {"by_arrival", "in_interval"}
    /\ result.kind = "ok"
    /\ issued # <<>>
    /\ issued[1] # request
    /\ issued[1].request_type = Aircraft("8990ed")

\* The key=value pairs of a request for states, in the order time, the
\* four bounds of the box, the addresses, the serials.
QueryParams(req) ==
    (IF req.time # None THEN <<Param("time", req.time[1])>> ELSE <<>>)
    \o (IF req.bbox # None
        THEN <<Param("lamin", req.bbox[1].lat_min),
               Param("lomin", req.bbox[1].long_min),
               Param("lamax", req.bbox[1].lat_max),
               Param("lomax", req.bbox[1].long_max)>>
        ELSE <<>>)
    \o [i \in 1..Len(req.icao24_addresses) |->
           Param("icao24", req.icao24_addresses[i])]
    \o [i \in 1..Len(req.serials) |-> Param("serials", req.serials[i])]

\* One '?', then the pairs with one '&' between each two.
QueryString(params) ==
    [i \in 1..(2 * Len(params)) |->
        CASE i = 1 -> Question
          [] i % 2 = 1 -> Ampersand
          [] OTHER -> params[i \div 2]]

\* A request for states was sent by send of states.rs.
StatesSent == pc = "done" /\ op = "states::send"

\* C29: the query string send builds for a request for states is empty
\* when no parameter is set, and otherwise one '?' followed by the set
\* parameters joined by '&' in the order time, bbox, icao24 entries,
\* serials entries; the endpoint is "own" exactly when there is a serial,
\* "all" otherwise.
C29_QueryString ==
    StatesSent =>
        /\ url.args = QueryString(QueryParams(request))
        /\ url.args = <<>> <=>
              /\ request.time = None
              /\ request.bbox = None
              /\ request.icao24_addresses = <<>>
              /\ request.serials = <<>>
        /\ Cardinality({i \in 1..Len(url.args) : url.args[i][1] = "?"}) =
              IF url.args = <<>> THEN 0 ELSE 1
        /\ url.endpoint = IF request.serials # <<>> THEN "own" ELSE "all"

\* A request with a time, a box, two addresses and two serials was sent.
C29_Witness ==
    /\ StatesSent
    /\ request.time # None
    /\ request.bbox # None
    /\ Len(request.icao24_addresses) = 2
    /\ Len(request.serials) = 2
    /\ Len(url.args) = 18
    /\ url.args[1] = Question
    /\ url.endpoint = "own"

\* A send of a flights or tracks request has ended.
IntervalChecked == pc = "done" /\ op \in {"flights::send", "tracks::send"}

\* The interval the check of the request is about exceeds its limit.
OverLimit ==
    IF op = "flights::send"
    THEN request.end - request.begin >
             FlightsRequestType_max_interval(request.request_type)
    ELSE request.time # 0 /\ now - request.time > 30 * 24 * 60 * 60

\* C30: the interval check of send of a flights request (any begin and
\* end, end < begin included) and of a tracks request (any time, one
\* ahead of the clock included) never underflows: it logs a warning
\* exactly when the interval exceeds the limit, and the request is sent.
C30_CheckNeverUnderflows ==
    IntervalChecked =>
        /\ result # Panic("attempt to subtract with overflow")
        /\ url # NoUrl
        /\ log # <<>> <=> OverLimit

====
